---- MODULE Spec2Model ----
(***************************************************************************)
(* dom-game-math: transform composition / decomposition / interpolation    *)
(* of the 3D (mat4) and 2D (mat2x3) affine matrices.                       *)
(*                                                                         *)
(* Numbers.  A JavaScript number is modelled as a fixed-point decimal: the *)
(* integer n stands for the real n / One.  Products, quotients and square  *)
(* roots are rounded to the nearest representable value, sign-symmetric as *)
(* IEEE arithmetic is, so a computation carries a rounding error just as   *)
(* the floating-point code does.  Matrices keep the source's 0-based,      *)
(* column-major indices.                                                   *)
(***************************************************************************)
EXTENDS Integers, Sequences, FiniteSets, TLC

\* ------------------------------------------------------------------------
\* Fixed-point arithmetic
\* ------------------------------------------------------------------------

Kilo == 10 * 10 * 10
One == Kilo * Kilo

Abs(a) == IF a < 0 THEN -a ELSE a
Sgn(a) == IF a < 0 THEN -1 ELSE 1

\* a * b  (common.ts lerp: (b - a) * alpha); the product is formed from the
\* three-digit limbs of the operands so that no intermediate leaves 32 bits.
MulLimbs(hi, mid, lo) ==
    hi + (mid \div Kilo) + (((mid % Kilo) * Kilo + lo + (One \div 2)) \div One)

MulAbs(a, b) ==
    MulLimbs((a \div Kilo) * (b \div Kilo),
             (a \div Kilo) * (b % Kilo) + (a % Kilo) * (b \div Kilo),
             (a % Kilo) * (b % Kilo))

Mul(a, b) == Sgn(a) * Sgn(b) * MulAbs(Abs(a), Abs(b))

\* a / b by long division, one decimal digit of the quotient per step; a
\* divisor of 100 or more is first cut by its last three digits.
RECURSIVE DivDigits(_, _, _, _)
DivDigits(q, r, b, n) ==
    IF n = 0
    THEN IF 2 * r >= b THEN q + 1 ELSE q
    ELSE DivDigits(q * 10 + ((r * 10) \div b), (r * 10) % b, b, n - 1)

DivAbs(a, b) ==
    IF b >= 100 * One
    THEN DivDigits(a \div (b \div Kilo), a % (b \div Kilo), b \div Kilo, 3)
    ELSE DivDigits(a \div b, a % b, b, 6)

Div(a, b) == Sgn(a) * Sgn(b) * DivAbs(Abs(a), Abs(b))

\* Math.sqrt by Newton's iteration from above, to the nearest value.
RECURSIVE SqrtIter(_, _, _)
SqrtIter(a, y, n) ==
    LET y1 == (y + Div(a, y)) \div 2
    IN  IF n = 0 \/ Abs(y1 - y) <= 1
        THEN IF Abs(Mul(y1, y1) - a) <= Abs(Mul(y, y) - a) THEN y1 ELSE y
        ELSE SqrtIter(a, y1, n - 1)

Sqrt(a) == IF a = 0 THEN 0 ELSE SqrtIter(a, IF a > One THEN (a + One) \div 2 ELSE One, 40)

\* The values a division by zero brings in: Infinity (-Infinity is its
\* negation) and NaN.  Times, Plus and Over are *, + and / on numbers that
\* can be one of them; on the other numbers they are Mul, + and Div.
Infinity == 2147 * One
NaN == Infinity + 1

Times(a, b) ==
    IF a = NaN \/ b = NaN THEN NaN
    ELSE IF Abs(a) = Infinity \/ Abs(b) = Infinity
    THEN IF a = 0 \/ b = 0 THEN NaN ELSE Sgn(a) * Sgn(b) * Infinity
    ELSE Mul(a, b)

Plus(a, b) ==
    IF a = NaN \/ b = NaN THEN NaN
    ELSE IF Abs(a) = Infinity THEN IF b = -a THEN NaN ELSE a
    ELSE IF Abs(b) = Infinity THEN b
    ELSE a + b

Over(a, b) ==
    IF b = 0 THEN IF a = 0 THEN NaN ELSE Sgn(a) * Infinity
    ELSE Div(a, b)

\* ------------------------------------------------------------------------
\* Math.PI, Math.sin, Math.cos, Math.atan2, Math.acos
\* ------------------------------------------------------------------------

Pi == 3141593
toRad == Div(Pi, 180 * One)

\* sin on [-Pi/2, Pi/2]: the Taylor polynomial up to x^11, in Horner form.
SinHorner(x, x2) ==
    LET h5 == One - (x2 \div 110)
        h4 == One - Mul(x2 \div 72, h5)
        h3 == One - Mul(x2 \div 42, h4)
        h2 == One - Mul(x2 \div 20, h3)
        h1 == One - Mul(x2 \div 6, h2)
    IN  Mul(x, h1)

SinPoly(x) == SinHorner(x, Mul(x, x))

\* r in [-Pi, Pi) folded into [-Pi/2, Pi/2], where the sine is the same
SinFold(r) ==
    IF 2 * r > Pi THEN Pi - r
    ELSE IF 2 * r < -Pi THEN -Pi - r
    ELSE r

Sin(x) == SinPoly(SinFold(((x + Pi) % (2 * Pi)) - Pi))

Cos(x) == Sin(x + (Pi \div 2))

\* atan on [0, 1]: two half-angle reductions, then the series up to u^9.
AtanHalf(t) == Div(t, One + Sqrt(One + Mul(t, t)))

AtanHorner(u, u2) ==
    LET h4 == (One \div 7) - Mul(u2, One \div 9)
        h3 == (One \div 5) - Mul(u2, h4)
        h2 == (One \div 3) - Mul(u2, h3)
        h1 == One - Mul(u2, h2)
    IN  4 * Mul(u, h1)

AtanSeries(u) == AtanHorner(u, Mul(u, u))

AtanUnit(t) == AtanSeries(AtanHalf(AtanHalf(t)))

\* atan(y / x) for y, x >= 0: atan(y / x) = Pi/2 - atan(x / y) when y > x
AtanPos(y, x) ==
    IF y <= x THEN AtanUnit(Div(y, x)) ELSE (Pi \div 2) - AtanUnit(Div(x, y))

\* the angle a of the first quadrant carried to the quadrant of (x, y)
AtanQuadrant(y, x, a) == IF x >= 0 THEN Sgn(y) * a ELSE Sgn(y) * (Pi - a)

Atan2(y, x) ==
    IF x = 0 /\ y = 0 THEN 0 ELSE AtanQuadrant(y, x, AtanPos(Abs(y), Abs(x)))

Acos(c) == Atan2(Sqrt(One - Mul(c, c)), c)

\* ------------------------------------------------------------------------
\* common.ts
\* ------------------------------------------------------------------------

\* lerp with alpha clamped to [0, 1]
lerp_clamped(a, b, alpha) ==
    a + Mul(b - a, IF alpha < 0 THEN 0 ELSE IF alpha > One THEN One ELSE alpha)

lerp(a, b, alpha) == a + Mul(b - a, alpha)

\* isNearlyEqual accepting a difference equal to the tolerance
isNearlyEqual_inclusive(a, b, tolerance) == Abs(a - b) <= tolerance

isNearlyEqual(a, b, tolerance) == Abs(a - b) < tolerance

\* ------------------------------------------------------------------------
\* Vector3, Vector4, Quaternion: plain records of numbers
\* ------------------------------------------------------------------------

vec3_zero == [x |-> 0, y |-> 0, z |-> 0]
vec3_one == [x |-> One, y |-> One, z |-> One]

\* vec3.new() and vec3.new(f)
vec3_new0 == [x |-> 0, y |-> 0, z |-> 0]
vec3_new1(f) == [x |-> f, y |-> f, z |-> f]

\* out.x = arr[0]; out.y = arr[1]; out.z = arr[2]
vec3_assign(out, arr) == [out EXCEPT !.x = arr[0], !.y = arr[1], !.z = arr[2]]

vec3_toArray(v) == [i \in 0..2 |-> CASE i = 0 -> v.x [] i = 1 -> v.y [] i = 2 -> v.z]

vec3_div(a, b) == [x |-> Div(a.x, b.x), y |-> Div(a.y, b.y), z |-> Div(a.z, b.z)]

vec3_lerp(a, b, alpha) ==
    [x |-> lerp(a.x, b.x, alpha), y |-> lerp(a.y, b.y, alpha), z |-> lerp(a.z, b.z, alpha)]

vec3_equals(a, b, tolerance) ==
    /\ isNearlyEqual(a.x, b.x, tolerance)
    /\ isNearlyEqual(a.y, b.y, tolerance)
    /\ isNearlyEqual(a.z, b.z, tolerance)

vec4_toArray(v) ==
    [i \in 0..3 |-> CASE i = 0 -> v.x [] i = 1 -> v.y [] i = 2 -> v.z [] i = 3 -> v.w]

vec4_fromArray(arr) == [x |-> arr[0], y |-> arr[1], z |-> arr[2], w |-> arr[3]]

vec4_len(v) == Sqrt(Mul(v.x, v.x) + Mul(v.y, v.y) + Mul(v.z, v.z) + Mul(v.w, v.w))

vec4_normalize(v) ==
    LET len == vec4_len(v)
    IN  IF len = 0 THEN v
        ELSE LET invLen == Div(One, len)
             IN  [x |-> Mul(v.x, invLen), y |-> Mul(v.y, invLen),
                  z |-> Mul(v.z, invLen), w |-> Mul(v.w, invLen)]

vec4_equals(a, b, tolerance) ==
    /\ isNearlyEqual(a.x, b.x, tolerance)
    /\ isNearlyEqual(a.y, b.y, tolerance)
    /\ isNearlyEqual(a.z, b.z, tolerance)
    /\ isNearlyEqual(a.w, b.w, tolerance)

quat_idt == [x |-> 0, y |-> 0, z |-> 0, w |-> One]
quat_new == [x |-> 0, y |-> 0, z |-> 0, w |-> One]
\* out.x = arr[0]; out.y = arr[1]; out.z = arr[2]; out.w = arr[3]
quat_assign(out, arr) == [out EXCEPT !.x = arr[0], !.y = arr[1], !.z = arr[2], !.w = arr[3]]
quat_toArray(q) == vec4_toArray(q)
quat_fromArray(arr) == vec4_fromArray(arr)
quat_normalize(q) == vec4_normalize(q)
quat_equals(a, b, tolerance) == vec4_equals(a, b, tolerance)

\* gl-matrix EPSILON = 0.000001
glMatrix_EPSILON == 1

\* gl-matrix quat.slerp(out, a, b, t)
\* the part of slerp after the sign of b is settled: cosom >= 0 is the dot
\* product of a and b, omega its arc cosine
gl_quat_slerp_by(a, b, t, cosom, omega) ==
    LET sinom == Sin(omega)
        arc   == One - cosom > glMatrix_EPSILON
        scale0 == IF arc THEN Div(Sin(Mul(One - t, omega)), sinom) ELSE One - t
        scale1 == IF arc THEN Div(Sin(Mul(t, omega)), sinom) ELSE t
    IN  [i \in 0..3 |-> Mul(scale0, a[i]) + Mul(scale1, b[i])]

gl_quat_slerp(a, b, t) ==
    LET dot   == Mul(a[0], b[0]) + Mul(a[1], b[1]) + Mul(a[2], b[2]) + Mul(a[3], b[3])
        cosom == IF dot < 0 THEN -dot ELSE dot
        bb    == IF dot < 0 THEN [i \in 0..3 |-> -b[i]] ELSE b
    IN  gl_quat_slerp_by(a, bb, t, cosom, Acos(cosom))

quat_slerp(a, b, alpha) == quat_fromArray(gl_quat_slerp(quat_toArray(a), quat_toArray(b), alpha))

\* ------------------------------------------------------------------------
\* gl-matrix mat4 primitives, as called by Matrix4.  A matrix is the flat
\* column-major array of its 16 coefficients; every primitive takes the
\* array it writes as its first argument, as in gl-matrix.
\* ------------------------------------------------------------------------

gl_mat4_create == [i \in 0..15 |-> IF i \in {0, 5, 10, 15} THEN One ELSE 0]

gl_mat4_identity(out) == [i \in DOMAIN out |-> IF i \in {0, 5, 10, 15} THEN One ELSE 0]

gl_mat4_copy(out, a) == [i \in DOMAIN out |-> a[i]]

gl_mat4_multiply(out, a, b) ==
    [i \in DOMAIN out |->
        LET c == 4 * (i \div 4)
            r == i % 4
        IN  Plus(Plus(Plus(Times(b[c], a[r]), Times(b[c + 1], a[4 + r])),
                      Times(b[c + 2], a[8 + r])), Times(b[c + 3], a[12 + r]))]

gl_mat4_fromTranslation(out, v) ==
    [i \in DOMAIN out |->
        CASE i \in {0, 5, 10, 15} -> One
          [] i \in {12, 13, 14}   -> v[i - 12]
          [] OTHER                -> 0]

gl_mat4_fromScaling(out, v) ==
    [i \in DOMAIN out |->
        CASE i \in {0, 5, 10} -> v[i \div 5]
          [] i = 15            -> One
          [] OTHER             -> 0]

gl_mat4_translate(out, a, v) ==
    [i \in DOMAIN out |->
        IF i < 12 THEN a[i]
        ELSE Mul(a[i - 12], v[0]) + Mul(a[i - 8], v[1]) + Mul(a[i - 4], v[2]) + a[i]]

gl_mat4_scale(out, a, v) ==
    [i \in DOMAIN out |-> IF i < 12 THEN Mul(a[i], v[i \div 4]) ELSE a[i]]

gl_mat4_fromQuat(out, q) ==
    LET x == q[0]  y == q[1]  z == q[2]  w == q[3]
        x2 == x + x  y2 == y + y  z2 == z + z
        xx == Mul(x, x2)  yx == Mul(y, x2)  yy == Mul(y, y2)
        zx == Mul(z, x2)  zy == Mul(z, y2)  zz == Mul(z, z2)
        wx == Mul(w, x2)  wy == Mul(w, y2)  wz == Mul(w, z2)
    IN  [i \in DOMAIN out |->
            CASE i = 0  -> One - yy - zz
              [] i = 1  -> yx + wz
              [] i = 2  -> zx - wy
              [] i = 4  -> yx - wz
              [] i = 5  -> One - xx - zz
              [] i = 6  -> zy + wx
              [] i = 8  -> zx + wy
              [] i = 9  -> zy - wx
              [] i = 10 -> One - xx - yy
              [] i = 15 -> One
              [] OTHER  -> 0]

Hypot3(a, b, c) == Sqrt(Mul(a, a) + Mul(b, b) + Mul(c, c))

gl_mat4_getScaling(mat) ==
    [i \in 0..2 |-> Hypot3(mat[4 * i], mat[4 * i + 1], mat[4 * i + 2])]

\* the upper 3x3 of mat with each coefficient divided by the scaling of its row
gl_mat4_unscaled(mat, scaling) ==
    [i \in 0..10 |-> IF i % 4 = 3 THEN 0 ELSE Mul(mat[i], Div(One, scaling[i % 4]))]

\* the quaternion of the rotation matrix sm, by the largest of its trace and
\* diagonal coefficients
gl_quat_fromUnscaled(sm) ==
    LET sm11 == sm[0]  sm12 == sm[1]  sm13 == sm[2]
        sm21 == sm[4]  sm22 == sm[5]  sm23 == sm[6]
        sm31 == sm[8]  sm32 == sm[9]  sm33 == sm[10]
        trace == sm11 + sm22 + sm33
        quarter == One \div 4
    IN  IF trace > 0 THEN
            LET S == 2 * Sqrt(trace + One)
            IN  [i \in 0..3 |->
                    CASE i = 3 -> Mul(quarter, S)
                      [] i = 0 -> Div(sm23 - sm32, S)
                      [] i = 1 -> Div(sm31 - sm13, S)
                      [] i = 2 -> Div(sm12 - sm21, S)]
        ELSE IF sm11 > sm22 /\ sm11 > sm33 THEN
            LET S == 2 * Sqrt(One + sm11 - sm22 - sm33)
            IN  [i \in 0..3 |->
                    CASE i = 3 -> Div(sm23 - sm32, S)
                      [] i = 0 -> Mul(quarter, S)
                      [] i = 1 -> Div(sm12 + sm21, S)
                      [] i = 2 -> Div(sm31 + sm13, S)]
        ELSE IF sm22 > sm33 THEN
            LET S == 2 * Sqrt(One + sm22 - sm11 - sm33)
            IN  [i \in 0..3 |->
                    CASE i = 3 -> Div(sm31 - sm13, S)
                      [] i = 0 -> Div(sm12 + sm21, S)
                      [] i = 1 -> Mul(quarter, S)
                      [] i = 2 -> Div(sm23 + sm32, S)]
        ELSE
            LET S == 2 * Sqrt(One + sm33 - sm11 - sm22)
            IN  [i \in 0..3 |->
                    CASE i = 3 -> Div(sm12 - sm21, S)
                      [] i = 0 -> Div(sm31 + sm13, S)
                      [] i = 1 -> Div(sm23 + sm32, S)
                      [] i = 2 -> Mul(quarter, S)]

gl_mat4_getRotation(mat) ==
    gl_quat_fromUnscaled(gl_mat4_unscaled(mat, gl_mat4_getScaling(mat)))

\* ------------------------------------------------------------------------
\* Matrix4 (mat4).  An operation with an `out` parameter is modelled by the
\* content of `out` after the call.
\* ------------------------------------------------------------------------

\* An optional field of a record: {} when missing, {v} when present.
Value(field) == CHOOSE v \in field : TRUE
\* field ??= default
OrDefault(field, default) == IF field = {} THEN {default} ELSE field

mat4_idt == gl_mat4_create
mat4_zero == [i \in 0..15 |-> 0]

mat4_set(m, other) == gl_mat4_copy(m, other)
mat4_identity(m) == gl_mat4_identity(m)
mat4_mul(a, b, out) == gl_mat4_multiply(out, a, b)

\* mat4_translate adding the translation to the last column as it is,
\* whatever basis m holds
mat4_translate_world(m, translation, out) ==
    [i \in DOMAIN out |->
        CASE i = 12 -> m[12] + translation.x
          [] i = 13 -> m[13] + translation.y
          [] i = 14 -> m[14] + translation.z
          [] OTHER  -> m[i]]

mat4_translate(m, translation, out) == gl_mat4_translate(out, m, vec3_toArray(translation))

\* mat4_getTranslation reading the last row in place of the last column
mat4_getTranslation_row(m, out) == [out EXCEPT !.x = m[3], !.y = m[7], !.z = m[11]]

mat4_getTranslation(m, out) == [out EXCEPT !.x = m[12], !.y = m[13], !.z = m[14]]

\* mat4_fromTranslation writing the translation only and keeping the rest of out
mat4_fromTranslation_keeping(translation, out) ==
    [i \in DOMAIN out |->
        CASE i = 12 -> translation.x
          [] i = 13 -> translation.y
          [] i = 14 -> translation.z
          [] OTHER  -> out[i]]

mat4_fromTranslation(translation, out) == gl_mat4_fromTranslation(out, vec3_toArray(translation))

mat4_rotate(m, rotation, out) ==
    LET rot == gl_mat4_fromQuat(gl_mat4_create, quat_toArray(rotation))
    IN  gl_mat4_multiply(out, m, rot)

mat4_fromRotation(rotation, out) == mat4_rotate(mat4_identity(out), rotation, out)

mat4_scale(m, scale, out) == gl_mat4_scale(out, m, vec3_toArray(scale))

\* mat4_getScale reading the diagonal in place of the lengths of the columns
mat4_getScale_diagonal(m, out) == [out EXCEPT !.x = m[0], !.y = m[5], !.z = m[10]]

mat4_getScale(m, out) == vec3_assign(out, gl_mat4_getScaling(m))

mat4_setScale(m, scale, out) ==
    mat4_scale(mat4_set(out, m), vec3_div(scale, mat4_getScale(m, vec3_zero)), out)

mat4_fromScale(scale, out) == gl_mat4_fromScaling(out, vec3_toArray(scale))

mat4_getRotation(m, out) ==
    quat_normalize(
        quat_assign(out, gl_mat4_getRotation(mat4_setScale(m, vec3_one, gl_mat4_create))))

\* compose ignoring the order asked for
compose_order_ignored(transform) == {"TRS"}

\* transform.order ??= "TRS"
compose_order(transform) == OrDefault(transform.order, "TRS")

\* compose falling back to the identity when no case matches
compose_unmatched_identity(t, out) ==
    [ret |-> "out", out |-> [i \in DOMAIN out |-> IF i \in {0, 5, 10, 15} THEN One ELSE 0],
     transform |-> t]

\* no case of the switch matches: the function ends without a return
compose_unmatched(t, out) == [ret |-> "undefined", out |-> out, transform |-> t]

\* compose(transform, out): the record it returns holds what the call
\* returned ("out": the object passed as out; "undefined"), the content of
\* out and the caller's transform record after the call.  The three steps
\* of a case write the same array out: o1 and o2 are its content after the
\* first and the second step.
mat4_compose(transform, out) ==
    LET t == [translation |-> OrDefault(transform.translation, vec3_zero),
              rotation    |-> OrDefault(transform.rotation, quat_idt),
              scale       |-> OrDefault(transform.scale, vec3_one),
              order       |-> compose_order(transform)]
        translation == Value(t.translation)
        rotation    == Value(t.rotation)
        scale       == Value(t.scale)
        order       == Value(t.order)
        done(m)     == [ret |-> "out", out |-> m, transform |-> t]
    IN  CASE order = "TRS" ->
               LET o1 == mat4_fromTranslation(translation, out)
                   o2 == mat4_rotate(o1, rotation, out)
               IN  done(mat4_scale(o2, scale, out))
          [] order = "RTS" ->
               LET o1 == mat4_fromRotation(rotation, out)
                   o2 == mat4_translate(o1, translation, out)
               IN  done(mat4_scale(o2, scale, out))
          [] order = "STR" ->
               LET o1 == mat4_fromScale(scale, out)
                   o2 == mat4_translate(o1, translation, out)
               IN  done(mat4_rotate(o2, rotation, out))
          [] order = "SRT" ->
               LET o1 == mat4_fromScale(scale, out)
                   o2 == mat4_rotate(o1, rotation, out)
               IN  done(mat4_translate(o2, translation, out))
          [] order = "RST" ->
               LET o1 == mat4_fromRotation(rotation, out)
                   o2 == mat4_scale(o1, scale, out)
               IN  done(mat4_translate(o2, translation, out))
          [] order = "TSR" ->
               LET o1 == mat4_fromTranslation(translation, out)
                   o2 == mat4_scale(o1, scale, out)
               IN  done(mat4_rotate(o2, rotation, out))
          [] OTHER -> compose_unmatched(t, out)

\* A transform record with no field, and one with every field of t.
NoTransform == [translation |-> {}, rotation |-> {}, scale |-> {}, order |-> {}]
Full(t) == [translation |-> {t.translation}, rotation |-> {t.rotation},
            scale |-> {t.scale}, order |-> {t.order}]

\* decompose(m, out): ret is the new record the call returns, out the
\* caller's record after the call, both with the three parts read from m.
decompose_result(out, translation, rotation, scale) ==
    [ret |-> [translation |-> translation, rotation |-> rotation,
              scale |-> scale, order |-> "TRS"],
     out |-> [out EXCEPT !.translation = {translation}, !.rotation = {rotation},
                         !.scale = {scale}]]

mat4_decompose(m, out) ==
    decompose_result(out,
        mat4_getTranslation(m, Value(OrDefault(out.translation, vec3_new0))),
        mat4_getRotation(m, Value(OrDefault(out.rotation, quat_new))),
        mat4_getScale(m, Value(OrDefault(out.scale, vec3_new1(One)))))

\* m1 after the three interpolations of lerp have been written into it
mat4_lerp_into(m1, m2, alpha) ==
    [m1 EXCEPT !.translation = vec3_lerp(m1.translation, m2.translation, alpha),
               !.rotation    = quat_slerp(m1.rotation, m2.rotation, alpha),
               !.scale       = vec3_lerp(m1.scale, m2.scale, alpha)]

mat4_lerp(a, b, alpha, out) ==
    mat4_compose(Full(mat4_lerp_into(mat4_decompose(a, NoTransform).ret,
                                     mat4_decompose(b, NoTransform).ret, alpha)), out)

\* A call on arrays the caller holds: mem gives the content of each array
\* by its name, and the arguments of the call are names, so that two of
\* them can be one array.  What the call leaves: mem with the array named
\* out holding r.out, and what the call returned.
written_at(mem, out, r) == [mem |-> [mem EXCEPT ![out] = r.out], ret |-> r.ret]

\* lerp setting out to the identity before it reads a and b
mat4_lerp_at_cleared(mem, a, b, alpha, out) ==
    written_at(mem, out,
        mat4_lerp(IF a = out THEN mat4_identity(mem[a]) ELSE mem[a],
                  IF b = out THEN mat4_identity(mem[b]) ELSE mem[b], alpha, mat4_identity(mem[out])))

\* lerp(a, b, alpha, out): both decompositions are made, from a and b as
\* they are when lerp is called, before compose writes the first
\* coefficient of out
mat4_lerp_at(mem, a, b, alpha, out) ==
    written_at(mem, out, mat4_lerp(mem[a], mem[b], alpha, mem[out]))

\* the for loop of equals, from index i on
RECURSIVE mat4_equals_from(_, _, _, _)
mat4_equals_from(a, b, tolerance, i) ==
    IF i >= 16 THEN TRUE
    ELSE IF ~isNearlyEqual(a[i], b[i], tolerance) THEN FALSE
    ELSE mat4_equals_from(a, b, tolerance, i + 1)

\* tolerance = 0.001 when the argument is omitted
DefaultTolerance == One \div Kilo

mat4_equals(a, b, tolerance) ==
    mat4_equals_from(a, b, Value(OrDefault(tolerance, DefaultTolerance)), 0)

\* the conjunction transformEquals returns, of the two decompositions
mat4_transformEquals_of(m1, m2, tolerance) ==
    /\ vec3_equals(m1.translation, m2.translation, tolerance)
    /\ quat_equals(m1.rotation, m2.rotation, tolerance)
    /\ vec3_equals(m1.scale, m2.scale, tolerance)

mat4_transformEquals(a, b, tolerance) ==
    mat4_transformEquals_of(mat4_decompose(a, NoTransform).ret,
                            mat4_decompose(b, NoTransform).ret,
                            Value(OrDefault(tolerance, DefaultTolerance)))

\* ------------------------------------------------------------------------
\* Vector2 and the gl-matrix mat2d primitives called by Matrix2x3
\* ------------------------------------------------------------------------

vec2_zero == [x |-> 0, y |-> 0]
vec2_one == [x |-> One, y |-> One]
vec2_new0 == [x |-> 0, y |-> 0]
vec2_new1(f) == [x |-> f, y |-> f]

vec2_toArray(v) == [i \in 0..1 |-> IF i = 0 THEN v.x ELSE v.y]

vec2_lerp(a, b, alpha) == [x |-> lerp(a.x, b.x, alpha), y |-> lerp(a.y, b.y, alpha)]

vec2_equals(a, b, tolerance) ==
    isNearlyEqual(a.x, b.x, tolerance) /\ isNearlyEqual(a.y, b.y, tolerance)

gl_mat2d_create == [i \in 0..5 |-> IF i \in {0, 3} THEN One ELSE 0]

gl_mat2d_multiply(out, a, b) ==
    [i \in DOMAIN out |->
        CASE i = 0 -> Mul(a[0], b[0]) + Mul(a[2], b[1])
          [] i = 1 -> Mul(a[1], b[0]) + Mul(a[3], b[1])
          [] i = 2 -> Mul(a[0], b[2]) + Mul(a[2], b[3])
          [] i = 3 -> Mul(a[1], b[2]) + Mul(a[3], b[3])
          [] i = 4 -> Mul(a[0], b[4]) + Mul(a[2], b[5]) + a[4]
          [] i = 5 -> Mul(a[1], b[4]) + Mul(a[3], b[5]) + a[5]]

gl_mat2d_fromTranslation(out, v) ==
    [i \in DOMAIN out |->
        CASE i \in {0, 3} -> One
          [] i \in {4, 5} -> v[i - 4]
          [] OTHER        -> 0]

gl_mat2d_fromRotation(out, rad) ==
    LET s == Sin(rad)
        c == Cos(rad)
    IN  [i \in DOMAIN out |->
            CASE i \in {0, 3} -> c
              [] i = 1        -> s
              [] i = 2        -> -s
              [] OTHER        -> 0]

gl_mat2d_fromScaling(out, v) ==
    [i \in DOMAIN out |->
        CASE i = 0 -> v[0]
          [] i = 3 -> v[1]
          [] OTHER -> 0]

gl_mat2d_translate(out, a, v) ==
    [i \in DOMAIN out |->
        CASE i = 4 -> Mul(a[0], v[0]) + Mul(a[2], v[1]) + a[4]
          [] i = 5 -> Mul(a[1], v[0]) + Mul(a[3], v[1]) + a[5]
          [] OTHER -> a[i]]

gl_mat2d_rotate(out, a, rad) ==
    LET s == Sin(rad)
        c == Cos(rad)
    IN  [i \in DOMAIN out |->
            CASE i = 0 -> Mul(a[0], c) + Mul(a[2], s)
              [] i = 1 -> Mul(a[1], c) + Mul(a[3], s)
              [] i = 2 -> Mul(a[0], -s) + Mul(a[2], c)
              [] i = 3 -> Mul(a[1], -s) + Mul(a[3], c)
              [] OTHER -> a[i]]

gl_mat2d_scale(out, a, v) ==
    [i \in DOMAIN out |->
        CASE i \in {0, 1} -> Mul(a[i], v[0])
          [] i \in {2, 3} -> Mul(a[i], v[1])
          [] OTHER        -> a[i]]

\* ------------------------------------------------------------------------
\* Matrix2x3 (mat2x3); a rotation is an angle in radians
\* ------------------------------------------------------------------------

mat2x3_idt == gl_mat2d_create
mat2x3_zero == [i \in 0..5 |-> 0]

mat2x3_mul(a, b, out) == gl_mat2d_multiply(out, a, b)
mat2x3_translate(m, translation, out) == gl_mat2d_translate(out, m, vec2_toArray(translation))
mat2x3_getTranslation(m, out) == [out EXCEPT !.x = m[4], !.y = m[5]]
mat2x3_fromTranslation(translation, out) == gl_mat2d_fromTranslation(out, vec2_toArray(translation))
mat2x3_rotate(m, rotation, out) == gl_mat2d_rotate(out, m, rotation)
mat2x3_getRotation(m) == Atan2(m[1], m[0])
mat2x3_fromRotation(rotation, out) == gl_mat2d_fromRotation(out, rotation)
mat2x3_scale(m, scale, out) == gl_mat2d_scale(out, m, vec2_toArray(scale))
mat2x3_fromScale(scale, out) == gl_mat2d_fromScaling(out, vec2_toArray(scale))

mat2x3_getScale(m, out) ==
    [out EXCEPT !.x = Sqrt(Mul(m[0], m[0]) + Mul(m[1], m[1])),
                !.y = Sqrt(Mul(m[2], m[2]) + Mul(m[3], m[3]))]

mat2x3_compose(transform, out) ==
    LET t == [translation |-> OrDefault(transform.translation, vec2_zero),
              rotation    |-> OrDefault(transform.rotation, 0),
              scale       |-> OrDefault(transform.scale, vec2_one),
              order       |-> compose_order(transform)]
        translation == Value(t.translation)
        rotation    == Value(t.rotation)
        scale       == Value(t.scale)
        order       == Value(t.order)
        done(m)     == [ret |-> "out", out |-> m, transform |-> t]
    IN  CASE order = "TRS" ->
               LET o1 == mat2x3_fromTranslation(translation, out)
                   o2 == mat2x3_rotate(o1, rotation, out)
               IN  done(mat2x3_scale(o2, scale, out))
          [] order = "RTS" ->
               LET o1 == mat2x3_fromRotation(rotation, out)
                   o2 == mat2x3_translate(o1, translation, out)
               IN  done(mat2x3_scale(o2, scale, out))
          [] order = "STR" ->
               LET o1 == mat2x3_fromScale(scale, out)
                   o2 == mat2x3_translate(o1, translation, out)
               IN  done(mat2x3_rotate(o2, rotation, out))
          [] order = "SRT" ->
               LET o1 == mat2x3_fromScale(scale, out)
                   o2 == mat2x3_rotate(o1, rotation, out)
               IN  done(mat2x3_translate(o2, translation, out))
          [] order = "RST" ->
               LET o1 == mat2x3_fromRotation(rotation, out)
                   o2 == mat2x3_scale(o1, scale, out)
               IN  done(mat2x3_translate(o2, translation, out))
          [] order = "TSR" ->
               LET o1 == mat2x3_fromTranslation(translation, out)
                   o2 == mat2x3_scale(o1, scale, out)
               IN  done(mat2x3_rotate(o2, rotation, out))
          [] OTHER -> compose_unmatched(t, out)

mat2x3_decompose(m, out) ==
    decompose_result(out,
        mat2x3_getTranslation(m, Value(OrDefault(out.translation, vec2_new0))),
        mat2x3_getRotation(m),
        mat2x3_getScale(m, Value(OrDefault(out.scale, vec2_new1(One)))))

\* m1 after the three interpolations of lerp have been written into it
mat2x3_lerp_into(m1, m2, alpha) ==
    [m1 EXCEPT !.translation = vec2_lerp(m1.translation, m2.translation, alpha),
               !.rotation    = lerp(m1.rotation, m2.rotation, alpha),
               !.scale       = vec2_lerp(m1.scale, m2.scale, alpha)]

mat2x3_lerp(a, b, alpha, out) ==
    mat2x3_compose(Full(mat2x3_lerp_into(mat2x3_decompose(a, NoTransform).ret,
                                         mat2x3_decompose(b, NoTransform).ret, alpha)), out)

RECURSIVE mat2x3_equals_from(_, _, _, _)
mat2x3_equals_from(a, b, tolerance, i) ==
    IF i >= 6 THEN TRUE
    ELSE IF ~isNearlyEqual(a[i], b[i], tolerance) THEN FALSE
    ELSE mat2x3_equals_from(a, b, tolerance, i + 1)

mat2x3_equals(a, b, tolerance) ==
    mat2x3_equals_from(a, b, Value(OrDefault(tolerance, DefaultTolerance)), 0)

\* ------------------------------------------------------------------------
\* Cameras: the gl-matrix primitives, then perspectiveProjection,
\* orthographicProjection, lookAt, viewProjection3d and viewProjection2d
\* ------------------------------------------------------------------------

vec3_up == [x |-> 0, y |-> One, z |-> 0]
vec3_forward == [x |-> 0, y |-> 0, z |-> One]

\* vec3.new(v, z), v a Vector2
vec3_new_xy(v, z) == [x |-> v.x, y |-> v.y, z |-> z]

vec3_len(v) == Sqrt(Mul(v.x, v.x) + Mul(v.y, v.y) + Mul(v.z, v.z))

vec3_add(a, b, out) == [out EXCEPT !.x = a.x + b.x, !.y = a.y + b.y, !.z = a.z + b.z]

vec3_negate(v, out) == [out EXCEPT !.x = -v.x, !.y = -v.y, !.z = -v.z]

vec3_scaled(v, len, out) ==
    IF len = 0
    THEN [out EXCEPT !.x = 0, !.y = 0, !.z = 0]
    ELSE [out EXCEPT !.x = Mul(v.x, Div(One, len)), !.y = Mul(v.y, Div(One, len)),
                     !.z = Mul(v.z, Div(One, len))]

vec3_normalize(v, out) == vec3_scaled(v, vec3_len(v), out)

Cross(a, b) ==
    [i \in 0..2 |-> Mul(a[(i + 1) % 3], b[(i + 2) % 3]) - Mul(a[(i + 2) % 3], b[(i + 1) % 3])]

Dot(a, b) == Mul(a[0], b[0]) + Mul(a[1], b[1]) + Mul(a[2], b[2])

\* gl_vec3.transformQuat: a + 2w (q x a) + 2 (q x (q x a)), uv = q x a
gl_vec3_transformQuat_uv(a, q, uv, uuv) ==
    [i \in 0..2 |-> a[i] + Mul(uv[i], 2 * q[3]) + 2 * uuv[i]]

gl_vec3_transformQuat_from(a, q, uv) == gl_vec3_transformQuat_uv(a, q, uv, Cross(q, uv))

gl_vec3_transformQuat(a, q) == gl_vec3_transformQuat_from(a, q, Cross(q, a))

vec3_rotate(v, q, out) ==
    vec3_assign(out, gl_vec3_transformQuat(vec3_toArray(v), quat_toArray(q)))

\* gl_quat.rotateX, rotateY, rotateZ with the sine s and the cosine c of
\* half the angle
gl_quat_rotate_by(a, axis, s, c) ==
    CASE axis = "X" -> [i \in 0..3 |->
             CASE i = 0 -> Mul(a[0], c) + Mul(a[3], s) [] i = 1 -> Mul(a[1], c) + Mul(a[2], s)
               [] i = 2 -> Mul(a[2], c) - Mul(a[1], s) [] i = 3 -> Mul(a[3], c) - Mul(a[0], s)]
      [] axis = "Y" -> [i \in 0..3 |->
             CASE i = 0 -> Mul(a[0], c) - Mul(a[2], s) [] i = 1 -> Mul(a[1], c) + Mul(a[3], s)
               [] i = 2 -> Mul(a[2], c) + Mul(a[0], s) [] i = 3 -> Mul(a[3], c) - Mul(a[1], s)]
      [] axis = "Z" -> [i \in 0..3 |->
             CASE i = 0 -> Mul(a[0], c) + Mul(a[1], s) [] i = 1 -> Mul(a[1], c) - Mul(a[0], s)
               [] i = 2 -> Mul(a[2], c) + Mul(a[3], s) [] i = 3 -> Mul(a[3], c) - Mul(a[2], s)]

gl_quat_rotate(a, axis, rad) ==
    gl_quat_rotate_by(a, axis, Sin(Div(rad, 2 * One)), Cos(Div(rad, 2 * One)))

\* the axes of the rotations of fromEuler, in the order it applies them
EulerAxes(order) ==
    CASE order = "YawPitchRoll" -> <<"Y", "X", "Z">>
      [] order = "RollPitchYaw" -> <<"Z", "X", "Y">>
      [] order = "PitchYawRoll" -> <<"X", "Y", "Z">>
      [] order = "RollYawPitch" -> <<"Z", "Y", "X">>
      [] order = "PitchRollYaw" -> <<"X", "Z", "Y">>
      [] order = "YawRollPitch" -> <<"Y", "Z", "X">>

\* the angle of fromEuler about an axis, in degrees
EulerAngle(euler, axis) ==
    CASE axis = "X" -> Value(OrDefault(euler.pitch, 0))
      [] axis = "Y" -> Value(OrDefault(euler.yaw, 0))
      [] axis = "Z" -> Value(OrDefault(euler.roll, 0))

RollOnly(roll) == [order |-> {}, pitch |-> {}, yaw |-> {}, roll |-> {roll}]

quat_fromEuler_in(euler, axes) ==
    quat_normalize(quat_fromArray(
        gl_quat_rotate(
            gl_quat_rotate(
                gl_quat_rotate(quat_toArray(quat_idt), axes[1],
                               Mul(EulerAngle(euler, axes[1]), toRad)),
                axes[2], Mul(EulerAngle(euler, axes[2]), toRad)),
            axes[3], Mul(EulerAngle(euler, axes[3]), toRad))))

quat_fromEuler(euler) ==
    quat_fromEuler_in(euler, EulerAxes(Value(OrDefault(euler.order, "PitchYawRoll"))))

\* gl_mat4.perspective, f = 1 / tan(fovy / 2) and nf = 1 / (near - far)
gl_mat4_perspective_by(out, f, aspect, near, far, nf) ==
    [i \in DOMAIN out |->
        CASE i = 0  -> Div(f, aspect)
          [] i = 5  -> f
          [] i = 10 -> Mul(far + near, nf)
          [] i = 11 -> -One
          [] i = 14 -> Mul(Mul(2 * far, near), nf)
          [] OTHER  -> 0]

Tan(x) == Div(Sin(x), Cos(x))

gl_mat4_perspective(out, fovy, aspect, near, far) ==
    gl_mat4_perspective_by(out, Div(One, Tan(Div(fovy, 2 * One))), aspect, near, far,
                           Div(One, near - far))

\* gl_mat4.ortho, lr = 1 / (left - right), bt = 1 / (bottom - top) and
\* nf = 1 / (near - far)
gl_mat4_ortho_by(out, sums, lr, bt, nf) ==
    [i \in DOMAIN out |->
        CASE i = 0  -> Times(-2 * One, lr)
          [] i = 5  -> Times(-2 * One, bt)
          [] i = 10 -> Times(2 * One, nf)
          [] i = 12 -> Times(sums[0], lr)
          [] i = 13 -> Times(sums[1], bt)
          [] i = 14 -> Times(sums[2], nf)
          [] i = 15 -> One
          [] OTHER  -> 0]

gl_mat4_ortho(out, left, right, bottom, top, near, far) ==
    gl_mat4_ortho_by(out, [i \in 0..2 |-> CASE i = 0 -> left + right
                                            [] i = 1 -> top + bottom
                                            [] i = 2 -> far + near],
                     Over(One, left - right), Over(One, bottom - top), Over(One, near - far))

\* v with each element divided by len, or zero when len is zero
Unit(v, len) == [i \in 0..2 |-> IF len = 0 THEN 0 ELSE Mul(v[i], Div(One, len))]

Normalized(v) == Unit(v, Hypot3(v[0], v[1], v[2]))

\* gl_mat4.lookAt: z is the unit vector from center to eye, x = up x z and
\* y = z x x, both made unit vectors
gl_mat4_lookAt_rows(out, eye, x, y, z) ==
    [i \in DOMAIN out |->
        CASE i \in {0, 4, 8}  -> x[i \div 4]
          [] i \in {1, 5, 9}  -> y[i \div 4]
          [] i \in {2, 6, 10} -> z[i \div 4]
          [] i = 12 -> -Dot(x, eye)
          [] i = 13 -> -Dot(y, eye)
          [] i = 14 -> -Dot(z, eye)
          [] i = 15 -> One
          [] OTHER  -> 0]

gl_mat4_lookAt_zx(out, eye, z, x) ==
    gl_mat4_lookAt_rows(out, eye, x, Normalized(Cross(z, x)), z)

gl_mat4_lookAt_z(out, eye, up, z) ==
    gl_mat4_lookAt_zx(out, eye, z, Normalized(Cross(up, z)))

gl_mat4_lookAt(out, eye, center, up) ==
    IF \A i \in 0..2 : Abs(eye[i] - center[i]) < glMatrix_EPSILON
    THEN gl_mat4_identity(out)
    ELSE gl_mat4_lookAt_z(out, eye, up, Normalized([i \in 0..2 |-> eye[i] - center[i]]))

mat4_perspectiveProjection(fov, aspect, near, far, out) ==
    gl_mat4_perspective(gl_mat4_identity(out), Mul(fov, toRad), aspect, near, far)

mat4_orthographicProjection(left, right, bottom, top, near, far, out) ==
    gl_mat4_ortho(gl_mat4_identity(out), left, right, bottom, top, near, far)

mat4_lookAt(position, target, up, out) ==
    gl_mat4_lookAt(out, vec3_toArray(position), vec3_toArray(target), vec3_toArray(up))

\* fwd and up of viewProjection3d, from the rotated world vectors: each
\* step writes the vector it reads
viewProjection3d_fwd_of(fwd) == vec3_normalize(fwd, fwd)

\* up without the negation
viewProjection3d_up_kept(up) == vec3_normalize(up, up)

viewProjection3d_up_of(up) == vec3_normalize(vec3_negate(up, up), vec3_negate(up, up))

viewProjection3d_fwd(rotation) ==
    viewProjection3d_fwd_of(vec3_rotate(vec3_forward, rotation, vec3_new0))

viewProjection3d_up(rotation) ==
    viewProjection3d_up_of(vec3_rotate(vec3_up, rotation, vec3_new0))

\* view of viewProjection3d: camera.position! is the field as it is, and
\* vec3.toArray of a missing position throws
viewProjection3d_view(camera, fwd, up) ==
    mat4_lookAt(Value(camera.position),
                vec3_add(Value(OrDefault(camera.position, vec3_zero)), fwd, vec3_new0),
                up, gl_mat4_create)

viewProjection3d_proj(camera) ==
    mat4_perspectiveProjection(Value(OrDefault(camera.fov, 45 * One)), camera.aspect,
                               Value(OrDefault(camera.near, One \div 10)),
                               Value(OrDefault(camera.far, Kilo * One)), gl_mat4_create)

\* viewProjection3d(camera, out): ret is what the call returned ("out", or
\* the error thrown) and out the content of out after the call
mat4_viewProjection3d(camera, out) ==
    IF camera.position = {}
    THEN [ret |-> "TypeError", out |-> out]
    ELSE [ret |-> "out",
          out |-> mat4_mul(viewProjection3d_proj(camera),
                           viewProjection3d_view(camera,
                               viewProjection3d_fwd(Value(OrDefault(camera.rotation, quat_idt))),
                               viewProjection3d_up(Value(OrDefault(camera.rotation, quat_idt)))),
                           out)]

\* a frustum whose bottom is the negation of its top
viewProjection2d_frustum_centred(zoom, aspect) ==
    [left |-> Over(-One, zoom), right |-> Over(One, zoom),
     bottom |-> -Mul(zoom, aspect), top |-> Mul(zoom, aspect), near |-> -One, far |-> One]

\* the frustum viewProjection2d hands to orthographicProjection, by the
\* names of the parameters of orthographicProjection
viewProjection2d_frustum_of(zoom, aspect) ==
    [left |-> Over(-One, zoom), right |-> Over(One, zoom),
     bottom |-> Mul(zoom, aspect), top |-> Mul(zoom, aspect), near |-> -One, far |-> One]

viewProjection2d_frustum(camera) ==
    viewProjection2d_frustum_of(Value(OrDefault(camera.zoom, One)),
                                Over(camera.height, camera.width))

OrthographicOf(f) ==
    mat4_orthographicProjection(f.left, f.right, f.bottom, f.top, f.near, f.far, gl_mat4_create)

\* view of viewProjection2d: translate and rotate both read out and write
\* view, the second over what the first wrote
viewProjection2d_view(camera, out) ==
    mat4_rotate(out, quat_fromEuler(RollOnly(Value(OrDefault(camera.rotation, 0)))),
                mat4_translate(out,
                               vec3_new_xy(Value(OrDefault(camera.position, vec2_zero)), 0),
                               gl_mat4_create))

\* viewProjection2d(camera, out): out is the content of out after the call;
\* view, frustum and proj are what the call built on the way
viewProjection2d_with(frustum, view, out) ==
    [ret |-> "out", frustum |-> frustum, view |-> view,
     out |-> mat4_mul(OrthographicOf(frustum), view, out)]

mat4_viewProjection2d(camera, out) ==
    viewProjection2d_with(viewProjection2d_frustum(camera),
                          viewProjection2d_view(camera, out), out)

\* ------------------------------------------------------------------------
\* Matrix3 (mat3) and the conversions between the matrix types
\* ------------------------------------------------------------------------

gl_mat3_create == [i \in 0..8 |-> IF i \in {0, 4, 8} THEN One ELSE 0]

\* gl_mat3.fromMat4: the upper-left 3x3 of a
gl_mat3_fromMat4(out, a) == [i \in DOMAIN out |-> a[4 * (i \div 3) + (i % 3)]]

mat3_fromMat4(m, out) == gl_mat3_fromMat4(out, m)

\* toMat4 writing the 3x3 block only
mat3_toMat4_block(m, out) ==
    [i \in DOMAIN out |->
        IF i % 4 = 3 \/ i \div 4 = 3 THEN out[i] ELSE m[3 * (i \div 4) + (i % 4)]]

mat3_toMat4(m, out) ==
    [i \in DOMAIN out |->
        CASE i = 15                   -> One
          [] i % 4 = 3 \/ i \div 4 = 3 -> 0
          [] OTHER                    -> m[3 * (i \div 4) + (i % 4)]]

\* mat2x3.toMat4 from the decomposition t of m: t.rotation is what
\* getRotation returned, and goes to fromEuler as the roll
mat2x3_toMat4_of(t, out) ==
    mat4_compose([translation |-> {vec3_new_xy(t.translation, 0)},
                  rotation    |-> {quat_fromEuler(RollOnly(t.rotation))},
                  scale       |-> {vec3_new_xy(t.scale, One)},
                  order       |-> {}], out)

mat2x3_toMat4(m, out) == mat2x3_toMat4_of(mat2x3_decompose(m, NoTransform).ret, out).out

\* ------------------------------------------------------------------------
\* The overloaded constructors.  An argument, and a component of what a
\* constructor returns, is a JavaScript value: a number n, undefined, an
\* object with the components x, y (and z when it is a Vector3), or the
\* array of the arguments of a call.
\* ------------------------------------------------------------------------

Number(n) == [kind |-> "number", n |-> n, x |-> 0, y |-> 0, z |-> 0]
Undefined == [kind |-> "undefined", n |-> 0, x |-> 0, y |-> 0, z |-> 0]
Object2(v) == [kind |-> "Vector2", n |-> 0, x |-> v.x, y |-> v.y, z |-> 0]
Object3(v) == [kind |-> "Vector3", n |-> 0, x |-> v.x, y |-> v.y, z |-> v.z]
ArgsArray == [kind |-> "array", n |-> 0, x |-> 0, y |-> 0, z |-> 0]

\* args[i] of a rest parameter, 0-based
Arg(args, i) == IF i < Len(args) THEN args[i + 1] ELSE Undefined

\* "x" in a and the like; on a number or undefined the operator throws
HasKeys(a, keys) ==
    CASE a.kind = "Vector3" -> keys \subseteq {"x", "y", "z"}
      [] a.kind = "Vector2" -> keys \subseteq {"x", "y"}
      [] OTHER              -> keys = {}
InThrows(a) == a.kind \in {"number", "undefined"}

Returned(x, y, z, w) == [ret |-> "vector", frozen |-> FALSE, x |-> x, y |-> y, z |-> z, w |-> w]
Thrown(error) ==
    [ret |-> error, frozen |-> FALSE, x |-> Undefined, y |-> Undefined, z |-> Undefined,
     w |-> Undefined]
\* a vector without the component w
NoW == [kind |-> "absent", n |-> 0, x |-> 0, y |-> 0, z |-> 0]

vec2_new_of(a, b) ==
    IF a.kind = "undefined" /\ b.kind = "undefined" THEN Returned(Number(0), Number(0), NoW, NoW)
    ELSE IF b.kind = "undefined" THEN Returned(a, a, NoW, NoW)
    ELSE Returned(a, b, NoW, NoW)

vec2_new(args) == vec2_new_of(Arg(args, 0), Arg(args, 1))

\* vec2.const(...args): vec2.new(args), the array being the one argument
vec2_const(args) == vec2_new(<<ArgsArray>>)

vec3_new_of(a, b, c) ==
    IF a.kind = "number" /\ b.kind = "number" /\ c.kind = "number"
    THEN Returned(a, b, c, NoW)
    ELSE IF a.kind = "number" /\ b.kind = "undefined" /\ c.kind = "undefined"
    THEN Returned(a, a, a, NoW)
    ELSE IF a.kind = "undefined" /\ b.kind = "undefined" /\ c.kind = "undefined"
    THEN Returned(Number(0), Number(0), Number(0), NoW)
    ELSE IF InThrows(a) THEN Thrown("TypeError")
    ELSE IF HasKeys(a, {"x", "y"}) /\ b.kind = "number" /\ c.kind = "undefined"
    THEN Returned(Number(a.x), Number(a.y), b, NoW)
    ELSE Thrown("Error")

vec3_new(args) == vec3_new_of(Arg(args, 0), Arg(args, 1), Arg(args, 2))

vec3_const(args) == vec3_new(<<ArgsArray>>)

vec4_new_of(a, b, c, d) ==
    IF a.kind = "number" /\ b.kind = "number" THEN Returned(a, b, c, d)
    ELSE IF a.kind = "number" THEN Returned(a, a, a, a)
    ELSE IF a.kind = "undefined" THEN Returned(Number(0), Number(0), Number(0), Number(0))
    ELSE IF HasKeys(a, {"x", "y", "z"}) THEN Returned(Number(a.x), Number(a.y), Number(a.z), b)
    ELSE Thrown("Error")

vec4_new(args) == vec4_new_of(Arg(args, 0), Arg(args, 1), Arg(args, 2), Arg(args, 3))

vec4_const(args) == vec4_new(<<ArgsArray>>)

\* ------------------------------------------------------------------------
\* The setters of Matrix4 and Matrix2x3
\* ------------------------------------------------------------------------

\* gl_quat.invert with dot the squared length of a
gl_quat_invert_by(a, invDot) ==
    [i \in 0..3 |-> IF i = 3 THEN Mul(a[3], invDot) ELSE Mul(-a[i], invDot)]

Dot4(a) == Mul(a[0], a[0]) + Mul(a[1], a[1]) + Mul(a[2], a[2]) + Mul(a[3], a[3])

gl_quat_invert(a) == gl_quat_invert_by(a, IF Dot4(a) = 0 THEN 0 ELSE Div(One, Dot4(a)))

quat_invert(q) == quat_fromArray(gl_quat_invert(quat_toArray(q)))

mat4_setTranslation(m, translation, out) ==
    [mat4_set(out, m) EXCEPT ![12] = translation.x, ![13] = translation.y,
                             ![14] = translation.z]

\* setRotation(m, rotation, out) with current the inverted rotation of m.
\* aliased: m and out are the same array, and m is read as out stands.
\* Each of the two calls of rotate writes all of out.
mat4_setRotation_by(m, current, rotation, out, aliased) ==
    LET o1 == mat4_set(out, m)
        o2 == mat4_rotate(IF aliased THEN o1 ELSE m, current, o1)
    IN  mat4_rotate(IF aliased THEN o2 ELSE m, rotation, o2)

mat4_setRotation(m, rotation, out, aliased) ==
    mat4_setRotation_by(m, quat_invert(quat_normalize(mat4_getRotation(m, quat_new))),
                        rotation, out, aliased)

\* setTranslation of Matrix2x3 writes out[4] and out[5] only
mat2x3_setTranslation(m, translation, out) ==
    [out EXCEPT ![4] = translation.x, ![5] = translation.y]

vec2_div(a, b) == [x |-> Div(a.x, b.x), y |-> Div(a.y, b.y)]

mat2x3_set(m, other) == [i \in DOMAIN m |-> other[i]]

\* mat2x3.setScale with quotient = scale / getScale(m), which vec2.div writes
\* into the caller's scale; writing into a frozen object throws, out then
\* holding the copy of m
mat2x3_setScale_by(copied, scale, quotient, frozen) ==
    IF frozen
    THEN [out |-> copied, scale |-> scale, error |-> "TypeError"]
    ELSE [out |-> mat2x3_scale(copied, quotient, copied), scale |-> quotient,
          error |-> "none"]

mat2x3_setScale(m, scale, frozen, out) ==
    mat2x3_setScale_by(mat2x3_set(out, m), scale,
                       vec2_div(scale, mat2x3_getScale(m, vec2_new0)), frozen)

\* ------------------------------------------------------------------------
\* lerp of vectors: the branch taken for a number alpha is vec2_lerp,
\* vec3_lerp and vec4_lerp, the branch taken for a vector alpha follows
\* ------------------------------------------------------------------------

vec4_lerp(a, b, alpha) ==
    [x |-> lerp(a.x, b.x, alpha), y |-> lerp(a.y, b.y, alpha), z |-> lerp(a.z, b.z, alpha),
     w |-> lerp(a.w, b.w, alpha)]

vec2_lerp_vector(a, b, alpha) ==
    [x |-> lerp(a.x, alpha.x, alpha.y), y |-> lerp(a.y, alpha.y, alpha.y)]

vec3_lerp_vector(a, b, alpha) ==
    [x |-> lerp(a.x, alpha.x, alpha.y), y |-> lerp(a.y, alpha.y, alpha.y),
     z |-> lerp(a.z, alpha.z, alpha.z)]

vec4_lerp_vector(a, b, alpha) ==
    [x |-> lerp(a.x, alpha.x, alpha.y), y |-> lerp(a.y, alpha.y, alpha.y),
     z |-> lerp(a.z, alpha.z, alpha.z), w |-> lerp(a.w, alpha.w, alpha.w)]

\* typeof alpha === "number" ? ... : ...; alpha is [kind, n, v]
vec_lerp(f, a, b, alpha) ==
    CASE f = "vec2.lerp" ->
            IF alpha.kind = "number" THEN vec2_lerp(a, b, alpha.n)
            ELSE vec2_lerp_vector(a, b, alpha.v)
      [] f = "vec3.lerp" ->
            IF alpha.kind = "number" THEN vec3_lerp(a, b, alpha.n)
            ELSE vec3_lerp_vector(a, b, alpha.v)
      [] f = "vec4.lerp" ->
            IF alpha.kind = "number" THEN vec4_lerp(a, b, alpha.n)
            ELSE vec4_lerp_vector(a, b, alpha.v)

\* ------------------------------------------------------------------------
\* RefVector and ConstRefVector: a view holds the array it was made over and
\* an offset; arr is the content of that array when the accessor runs
\* ------------------------------------------------------------------------

\* the place of a component after the offset
Component(c) == CASE c = "x" -> 0 [] c = "y" -> 1 [] c = "z" -> 2 [] c = "w" -> 3

\* get x() { return this.arr[this.offset] } and the like
RefVector_get(arr, offset, c) == arr[offset + Component(c)]

\* a setter writing the place of the component without the offset
RefVector_set_unshifted(arr, offset, c, value) == [arr EXCEPT ![Component(c)] = value]

\* set x(value) { this.arr[this.offset] = value } and the like; arr after it
RefVector_set(arr, offset, c, value) == [arr EXCEPT ![offset + Component(c)] = value]

ConstRefVector_get(arr, offset, c) == arr[offset + Component(c)]

\* ConstRefVector has no setter: the assignment throws and writes nothing
ConstRefVector_set(arr, offset, c, value) == [ret |-> "TypeError", arr |-> arr]

\* ------------------------------------------------------------------------
\* Float32Array views of one ArrayBuffer, and the matrices made by ref.  A
\* Float32Array is the byte of the buffer it starts at and its length in
\* elements; buffer is the content of the ArrayBuffer, one number for each
\* four bytes.
\* ------------------------------------------------------------------------

\* the place in the buffer of element i of the array ta
Float32Array_at(ta, i) == (ta.byteOffset \div 4) + i

\* ta[i] = value: the buffer after it; an index outside ta writes nothing
Float32Array_set(buffer, ta, i, value) ==
    IF i >= 0 /\ i < ta.length THEN [buffer EXCEPT ![Float32Array_at(ta, i)] = value]
    ELSE buffer

\* new Float32Array(data.buffer, offset * 4, 16), and with 9 and 6 elements
mat4_ref(data, offset) == [byteOffset |-> offset * 4, length |-> 16]
mat3_ref(data, offset) == [byteOffset |-> offset * 4, length |-> 9]
mat2x3_ref(data, offset) == [byteOffset |-> offset * 4, length |-> 6]

\* ------------------------------------------------------------------------
\* The arguments the operations are called with
\* ------------------------------------------------------------------------

NumTranslations == 2
NumRotations == 5
NumScales == 4
NumMatrices == 8
NumAngles == 4
NumAlphas == 4

Half == One \div 2

Take(table, n) == {table[i] : i \in 1..(IF n < Len(table) THEN n ELSE Len(table))}

V3(a, b, c) == [x |-> a, y |-> b, z |-> c]
V2(a, b) == [x |-> a, y |-> b]
Q4(a, b, c, d) == [x |-> a, y |-> b, z |-> c, w |-> d]

TranslationTable ==
    << V3(One, 0, 0), V3(-2 * One, 3 * One, Half), V3(0, 5 * One, 0), V3(0, 0, 0) >>

\* unit quaternions: 90 degrees about Y; the angle about Z whose cosine and
\* sine are 0.28 and 0.96; the identity rotation written with w = -1; 180
\* degrees about X; 120 degrees about (1,1,1); the angle about Y whose
\* cosine and sine are 0.28 and -0.96; 90 degrees about X
RotY90 == Q4(0, 707107, 0, 707107)
RotZ74 == Q4(0, 0, 600 * Kilo, 800 * Kilo)
\* a rotation by 120 degrees (w = 0.5): the trace of its matrix is 0, the
\* value at which getRotation changes branch
Rot120 == Q4(-292 * Kilo, -766 * Kilo, 279249, Half)
RotationTable ==
    << RotY90, RotZ74, Q4(0, 0, 0, -One), Q4(One, 0, 0, 0), Q4(Half, Half, Half, Half),
       Q4(0, -600 * Kilo, 0, 800 * Kilo), Q4(707107, 0, 0, 707107) >>

ScaleTable ==
    << V3(2 * One, One, One), V3(3 * One, 3 * One, 3 * One), V3(-One, One, One),
       V3(Half, 2 * One, 3 * Half), V3(-2 * One, -2 * One, One), V3(One, One, 4 * One) >>

Translations == Take(TranslationTable, NumTranslations)
Rotations == Take(RotationTable, NumRotations)
Scales == Take(ScaleTable, NumScales)

Orders == {"TRS", "RTS", "STR", "SRT", "RST", "TSR"}
UnknownOrders == {"XYZ"}

\* an out matrix with a recognisable previous content
Used4 == [i \in 0..15 |-> (i + 2) * One]
Used2 == [i \in 0..5 |-> (i + 2) * One]

Optional(S) == {{}} \cup {{v} : v \in S}

AlphaTable == << 0, One, Half, 3 * Half, -Half, One \div 4 >>
Alphas == Take(AlphaTable, NumAlphas)

\* 4x4 matrices handed to decompose, lerp and the comparisons: compositions
\* of transforms with a unit rotation and a non-zero scale
Transform(t, r, s, o) == [translation |-> t, rotation |-> r, scale |-> s, order |-> o]
TransformTable ==
    << Transform(TranslationTable[1], RotY90, ScaleTable[1], "TRS"),
       Transform(TranslationTable[1], RotY90, ScaleTable[1], "SRT"),
       Transform(TranslationTable[4], quat_idt, vec3_one, "TRS"),
       Transform(TranslationTable[1], Rot120, vec3_one, "TRS"),
       Transform(TranslationTable[2], RotZ74, ScaleTable[2], "RTS"),
       Transform(TranslationTable[2], RotationTable[4], ScaleTable[3], "TRS"),
       Transform(TranslationTable[3], RotZ74, ScaleTable[1], "STR"),
       Transform(TranslationTable[1], RotationTable[3], ScaleTable[4], "RST"),
       Transform(TranslationTable[3], RotationTable[5], ScaleTable[5], "TSR"),
       Transform(TranslationTable[2], RotationTable[6], ScaleTable[6], "SRT") >>

Composed4(t) == mat4_compose(Full(t), gl_mat4_create).out
Matrices4 == {Composed4(t) : t \in Take(TransformTable, NumMatrices)}

\* 2D: angles in degrees, converted as a caller does (degrees * toRad)
AngleTable == << 170, -170, 0, 45, 90, -135, 30 >>
Angles == {Mul(d * One, toRad) : d \in Take(AngleTable, NumAngles)}
Translations2 == {V2(t.x, t.y) : t \in Translations}
Scales2 == {V2(s.x, s.y) : s \in Scales}

Composed2(t) == mat2x3_compose(Full(t), gl_mat2d_create).out
Matrices2 ==
    {Composed2(Transform(V2(One, 0), a, s, "TRS")) :
        a \in Angles, s \in {V2(One, One), V2(2 * One, One)}}

\* the arrays of a call of lerp: the two inputs, an array used before and a
\* new one (the default of out); out is one of the four
Arrays4(a, b) ==
    [n \in {"a", "b", "used", "new"} |->
        CASE n = "a" -> a [] n = "b" -> b [] n = "used" -> Used4 [] n = "new" -> gl_mat4_create]
LerpTargets == {"a", "b", "used", "new"}

\* The buffer of a call of ref, with a content that tells its elements
\* apart, and the arrays data over it: the whole buffer, and the part of it
\* from element DataStart on (buffer.subarray(DataStart))
BufferLen == 20
DataStart == 2
Buffer == [i \in 0..(BufferLen - 1) |-> (i + 1) * One]
DataArrays ==
    {[byteOffset |-> 0, length |-> BufferLen],
     [byteOffset |-> 4 * DataStart, length |-> BufferLen - DataStart]}
RefKinds == {"mat4", "mat3", "mat2x3"}

\* the out record of decompose: an empty one, and one a caller has used before
DecomposeOuts == {NoTransform, Full(TransformTable[2])}

Tolerances == {{}, {0}, {1}, {DefaultTolerance}, {-DefaultTolerance}, {2 * One}}

\* m with coefficient i moved by d
Moved(m, i, d) == [m EXCEPT ![i] = @ + d]
Nudges == {DefaultTolerance - 1, DefaultTolerance, -DefaultTolerance}

\* ------------------------------------------------------------------------
\* State: the last call made, its arguments as passed, and what it left
\* ------------------------------------------------------------------------

VARIABLES
    fn,         \* the function called last
    args,       \* its arguments, as they were before the call
    transform,  \* the caller's transform record after the call
    out,        \* the content of the out matrix after the call
    ret,        \* what the call returned
    mem         \* the arrays the caller holds, by name, after the call; for a
                \* camera call, what the call built on the way

vars == <<fn, args, transform, out, ret, mem>>

\* args, transform, out and ret hold their value under the name of the
\* function called, so that args[fn], transform[fn], out[fn] and ret[fn] are
\* what the last call took and left
Of(f, v) == [n \in {f} |-> v]
None == Of("none", 0)

Init ==
    /\ fn = "none"
    /\ args = None
    /\ transform = None
    /\ out = None
    /\ ret = None
    /\ mem = None

Mat4Compose ==
    /\ fn = "none"
    /\ \E translation \in Optional(Translations), rotation \in Optional(Rotations),
       scale \in Optional(Scales), order \in Optional(Orders \cup UnknownOrders),
       o \in Optional({Used4}) :
        LET t == [translation |-> translation, rotation |-> rotation,
                  scale |-> scale, order |-> order]
            before == Value(OrDefault(o, gl_mat4_create))
        IN  \E r \in {mat4_compose(t, before)} :
                /\ fn' = "mat4.compose"
                /\ args' = Of("mat4.compose", [transform |-> t, out |-> before])
                /\ transform' = Of("mat4.compose", r.transform)
                /\ out' = Of("mat4.compose", r.out)
                /\ ret' = Of("mat4.compose", r.ret)
                /\ mem' = None

Mat4Decompose ==
    /\ fn = "none"
    /\ \E m \in Matrices4, o \in DecomposeOuts :
        \E r \in {mat4_decompose(m, o)} :
            /\ fn' = "mat4.decompose"
            /\ args' = Of("mat4.decompose", [m |-> m, out |-> o])
            /\ transform' = Of("mat4.decompose", r.out)
            /\ out' = None
            /\ ret' = Of("mat4.decompose", r.ret)
            /\ mem' = None

Mat4Lerp ==
    /\ fn = "none"
    /\ \E a, b \in Matrices4, alpha \in Alphas, target \in LerpTargets :
        LET before == Arrays4(a, b)
        IN  \E r \in {mat4_lerp_at(before, "a", "b", alpha, target)} :
                /\ fn' = "mat4.lerp"
                /\ args' = Of("mat4.lerp", [a |-> a, b |-> b, alpha |-> alpha,
                                            out |-> before[target], target |-> target])
                /\ transform' = None
                /\ out' = Of("mat4.lerp", r.mem[target])
                /\ ret' = Of("mat4.lerp", r.ret)
                /\ mem' = Of("mat4.lerp", r.mem)

Mat4Equals ==
    /\ fn = "none"
    /\ \E a, c \in Matrices4, tolerance \in Tolerances :
        \E b \in {c} \cup {Moved(a, i, d) : i \in {0, 6, 15}, d \in Nudges} :
            /\ fn' = "mat4.equals"
            /\ args' = Of("mat4.equals", [a |-> a, b |-> b, tolerance |-> tolerance])
            /\ transform' = None
            /\ out' = None
            /\ ret' = Of("mat4.equals", mat4_equals(a, b, tolerance))
            /\ mem' = None

Mat4TransformEquals ==
    /\ fn = "none"
    /\ \E a, b \in Matrices4 :
        /\ fn' = "mat4.transformEquals"
        /\ args' = Of("mat4.transformEquals", [a |-> a, b |-> b, tolerance |-> {}])
        /\ transform' = None
        /\ out' = None
        /\ ret' = Of("mat4.transformEquals", mat4_transformEquals(a, b, {}))
        /\ mem' = None

Mat2x3Compose ==
    /\ fn = "none"
    /\ \E translation \in Optional(Translations2), rotation \in Optional(Angles),
       scale \in Optional(Scales2), order \in Optional(Orders \cup UnknownOrders),
       o \in Optional({Used2}) :
        LET t == [translation |-> translation, rotation |-> rotation,
                  scale |-> scale, order |-> order]
            before == Value(OrDefault(o, gl_mat2d_create))
        IN  \E r \in {mat2x3_compose(t, before)} :
                /\ fn' = "mat2x3.compose"
                /\ args' = Of("mat2x3.compose", [transform |-> t, out |-> before])
                /\ transform' = Of("mat2x3.compose", r.transform)
                /\ out' = Of("mat2x3.compose", r.out)
                /\ ret' = Of("mat2x3.compose", r.ret)
                /\ mem' = None

Mat2x3Lerp ==
    /\ fn = "none"
    /\ \E a, b \in Matrices2, alpha \in Alphas :
        \E r \in {mat2x3_lerp(a, b, alpha, gl_mat2d_create)} :
            /\ fn' = "mat2x3.lerp"
            /\ args' = Of("mat2x3.lerp", [a |-> a, b |-> b, alpha |-> alpha, out |-> gl_mat2d_create])
            /\ transform' = None
            /\ out' = Of("mat2x3.lerp", r.out)
            /\ ret' = Of("mat2x3.lerp", r.ret)
            /\ mem' = None

Mat2x3Equals ==
    /\ fn = "none"
    /\ \E a, c \in Matrices2, tolerance \in Tolerances :
        \E b \in {c} \cup {Moved(a, i, d) : i \in {0, 5}, d \in Nudges} :
            /\ fn' = "mat2x3.equals"
            /\ args' = Of("mat2x3.equals", [a |-> a, b |-> b, tolerance |-> tolerance])
            /\ transform' = None
            /\ out' = None
            /\ ret' = Of("mat2x3.equals", mat2x3_equals(a, b, tolerance))
            /\ mem' = None

\* m = mat4.ref(data, offset) (or mat3.ref, mat2x3.ref), then m[i] = 0 for
\* the first or the last element of m; ret is the array made
MatRef ==
    /\ fn = "none"
    /\ \E data \in DataArrays, kind \in RefKinds, offset \in 0..(BufferLen - 6) :
        \E m \in {CASE kind = "mat4"   -> mat4_ref(data, offset)
                     [] kind = "mat3"   -> mat3_ref(data, offset)
                     [] kind = "mat2x3" -> mat2x3_ref(data, offset)} :
            \E i \in {0, m.length - 1} :
                /\ offset + m.length <= data.length
                /\ fn' = "mat.ref"
                /\ args' = Of("mat.ref", [data |-> data, kind |-> kind, offset |-> offset,
                                          i |-> i, buffer |-> Buffer])
                /\ transform' = None
                /\ out' = None
                /\ ret' = Of("mat.ref", m)
                /\ mem' = Of("mat.ref", Float32Array_set(Buffer, m, i, 0))

\* the caller has taken the result; the next call can be made
Return ==
    /\ fn # "none"
    /\ fn' = "none"
    /\ args' = None
    /\ transform' = None
    /\ out' = None
    /\ ret' = None
    /\ mem' = None

Next ==
    \/ Mat4Compose
    \/ Mat4Decompose
    \/ Mat4Lerp
    \/ Mat4Equals
    \/ Mat4TransformEquals
    \/ Mat2x3Compose
    \/ Mat2x3Lerp
    \/ Mat2x3Equals
    \/ MatRef
    \/ Return

Spec == Init /\ [][Next]_vars

\* ------------------------------------------------------------------------
\* Views over one array that lives on: mem.arr is its content, each step is
\* one access through a view made over it, or a write to the array itself
\* ------------------------------------------------------------------------

ArrayLen == 6
NumValues == 1
Values == {i * One : i \in 1..NumValues}
Components == {"x", "y", "z", "w"}
\* the offsets at which the four components are inside the array
Offsets == 0..(ArrayLen - 4)

InitViews ==
    /\ fn = "none"
    /\ args = None
    /\ transform = None
    /\ out = None
    /\ ret = None
    /\ mem = Of("arr", [i \in 0..(ArrayLen - 1) |-> 0])

\* view.x = value and the like, view = vec4.ref(arr, offset)
RefSet ==
    \E offset \in Offsets, c \in Components, value \in Values :
        /\ fn' = "ref.set"
        /\ args' = Of("ref.set", [offset |-> offset, component |-> c, value |-> value,
                                  before |-> mem.arr])
        /\ mem' = Of("arr", RefVector_set(mem.arr, offset, c, value))
        /\ ret' = None
        /\ UNCHANGED <<transform, out>>

\* view.x and the like, view = vec4.ref(arr, offset)
RefGet ==
    \E offset \in Offsets, c \in Components :
        /\ fn' = "ref.get"
        /\ args' = Of("ref.get", [offset |-> offset, component |-> c, before |-> mem.arr])
        /\ ret' = Of("ref.get", RefVector_get(mem.arr, offset, c))
        /\ UNCHANGED <<transform, out, mem>>

\* arr[i] = value
ArraySet ==
    \E i \in 0..(ArrayLen - 1), value \in Values :
        /\ fn' = "arr.set"
        /\ args' = Of("arr.set", [i |-> i, value |-> value, before |-> mem.arr])
        /\ mem' = Of("arr", [mem.arr EXCEPT ![i] = value])
        /\ ret' = None
        /\ UNCHANGED <<transform, out>>

\* view.x and the like, view = vec4.refConst(arr, offset)
ConstRefGet ==
    \E offset \in Offsets, c \in Components :
        /\ fn' = "refConst.get"
        /\ args' = Of("refConst.get", [offset |-> offset, component |-> c, before |-> mem.arr])
        /\ ret' = Of("refConst.get", ConstRefVector_get(mem.arr, offset, c))
        /\ UNCHANGED <<transform, out, mem>>

\* view.x = value and the like, view = vec4.refConst(arr, offset)
ConstRefSet ==
    \E offset \in Offsets, c \in Components, value \in Values :
        \E r \in {ConstRefVector_set(mem.arr, offset, c, value)} :
            /\ fn' = "refConst.set"
            /\ args' = Of("refConst.set", [offset |-> offset, component |-> c,
                                           value |-> value, before |-> mem.arr])
            /\ mem' = Of("arr", r.arr)
            /\ ret' = Of("refConst.set", r.ret)
            /\ UNCHANGED <<transform, out>>

NextViews ==
    \/ RefSet
    \/ RefGet
    \/ ArraySet
    \/ ConstRefGet
    \/ ConstRefSet

SpecViews == InitViews /\ [][NextViews]_vars

\* ------------------------------------------------------------------------
\* The shared constants and the objects of one caller, living on: mem.heap
\* holds every object by name, transform.record the caller's 2D transform
\* record, whose translation and scale fields refer to objects of the heap
\* ------------------------------------------------------------------------

MaxMoves == 2
Move == V2(One, 0)

\* the constants: Object.freeze() on the vectors, plain typed arrays for
\* the matrices
FrozenObjects == {"vec2.zero", "vec2.one"}
SharedConstants == FrozenObjects \cup {"mat2x3.idt"}
\* the matrices a call can name as m or out: the constant and one of the
\* caller's own
MatrixObjects == {"mat2x3.idt", "m"}

HeapInit ==
    [n \in SharedConstants \cup {"m", "t", "s"} |->
        CASE n = "mat2x3.idt" -> mat2x3_idt
          [] n = "m"          -> gl_mat2d_create
          [] n = "vec2.zero"  -> vec2_zero
          [] n = "vec2.one"   -> vec2_one
          [] n = "t"          -> vec2_new0
          [] n = "s"          -> vec2_new1(One)]

\* the record with the objects its fields refer to
Deref(heap, record) ==
    [translation |-> {heap[n] : n \in record.translation},
     rotation    |-> record.rotation,
     scale       |-> {heap[n] : n \in record.scale},
     order       |-> record.order]

\* compose(record, out), out the object named target and r what compose
\* makes of their contents: the record keeps the objects it had and gets
\* the constants for the fields it lacked; the target is written
mat2x3_compose_at(heap, record, target, r) ==
    [ret    |-> r.ret,
     heap   |-> [heap EXCEPT ![target] = r.out],
     record |-> [translation |-> OrDefault(record.translation, "vec2.zero"),
                 rotation    |-> r.transform.rotation,
                 scale       |-> OrDefault(record.scale, "vec2.one"),
                 order       |-> r.transform.order]]

\* decompose(m, record), m the content of the matrix read.  The record's
\* missing fields are filled first (a new vector is "t", "s"); the writes
\* of getTranslation, then of getScale, go to the objects the record refers
\* to, and a write to a frozen object throws (module code is strict)
mat2x3_decompose_at(heap, record, m) ==
    LET filled == [translation |-> OrDefault(record.translation, "t"),
                   rotation    |-> OrDefault(record.rotation, 0),
                   scale       |-> OrDefault(record.scale, "s"),
                   order       |-> record.order]
        t == Value(filled.translation)
        s == Value(filled.scale)
    IN  IF t \in FrozenObjects
        THEN [ret |-> "TypeError", heap |-> heap, record |-> filled]
        ELSE IF s \in FrozenObjects
        THEN [ret    |-> "TypeError",
              heap   |-> [heap EXCEPT ![t] = mat2x3_getTranslation(m, heap[t])],
              record |-> [filled EXCEPT !.rotation = {mat2x3_getRotation(m)}]]
        ELSE [ret    |-> "TRS",
              heap   |-> [heap EXCEPT ![t] = mat2x3_getTranslation(m, heap[t]),
                                      ![s] = mat2x3_getScale(m, heap[s])],
              record |-> [filled EXCEPT !.rotation = {mat2x3_getRotation(m)}]]

InitShared ==
    /\ fn = "none"
    /\ args = None
    /\ transform = Of("record", NoTransform)
    /\ out = None
    /\ ret = None
    /\ mem = Of("heap", HeapInit)

\* mat2x3.translate(m, Move, out), m and out each the constant mat2x3.idt
\* or the caller's matrix
SharedTranslate ==
    \E m, o \in MatrixObjects :
        \E r \in {mat2x3_translate(mem.heap[m], Move, mem.heap[o])} :
            /\ r[4] <= MaxMoves * One
            /\ fn' = "mat2x3.translate"
            /\ args' = Of("mat2x3.translate", [m |-> m, out |-> o])
            /\ mem' = Of("heap", [mem.heap EXCEPT ![o] = r])
            /\ ret' = Of("mat2x3.translate", o)
            /\ UNCHANGED <<transform, out>>

\* mat2x3.compose(record, out)
SharedCompose ==
    \E o \in MatrixObjects :
        \E r \in {mat2x3_compose_at(mem.heap, transform.record, o,
                      mat2x3_compose(Deref(mem.heap, transform.record), mem.heap[o]))} :
            /\ fn' = "mat2x3.compose"
            /\ args' = Of("mat2x3.compose", [out |-> o])
            /\ mem' = Of("heap", r.heap)
            /\ transform' = Of("record", r.record)
            /\ ret' = Of("mat2x3.compose", r.ret)
            /\ UNCHANGED out

\* mat2x3.decompose(m, record)
SharedDecompose ==
    \E m \in MatrixObjects :
        \E r \in {mat2x3_decompose_at(mem.heap, transform.record, mem.heap[m])} :
            /\ fn' = "mat2x3.decompose"
            /\ args' = Of("mat2x3.decompose", [m |-> m])
            /\ mem' = Of("heap", r.heap)
            /\ transform' = Of("record", r.record)
            /\ ret' = Of("mat2x3.decompose", r.ret)
            /\ UNCHANGED out

\* the caller starts over with a record without fields
SharedNewRecord ==
    /\ transform.record # NoTransform
    /\ fn' = "record.new"
    /\ args' = None
    /\ transform' = Of("record", NoTransform)
    /\ mem' = Of("heap", [mem.heap EXCEPT !["t"] = vec2_new0, !["s"] = vec2_new1(One)])
    /\ ret' = None
    /\ UNCHANGED out

NextShared ==
    \/ SharedTranslate
    \/ SharedCompose
    \/ SharedDecompose
    \/ SharedNewRecord

SpecShared == InitShared /\ [][NextShared]_vars

\* ------------------------------------------------------------------------
\* Camera calls: one call of viewProjection3d or viewProjection2d, then the
\* caller takes the result
\* ------------------------------------------------------------------------

CameraFovs == {60 * One}
CameraNears == {One}
CameraFars == {100 * One}
Aspects == {One, 2 * One}

Cameras3D ==
    {[position |-> p, rotation |-> r, fov |-> f, aspect |-> a, near |-> n, far |-> g] :
        p \in Optional(Translations), r \in Optional(Rotations), f \in Optional(CameraFovs),
        a \in Aspects, n \in Optional(CameraNears), g \in Optional(CameraFars)}

\* 2D: the rotation in degrees, width and height in pixels
Cameras2D ==
    {[position |-> p, rotation |-> r, zoom |-> z, width |-> w, height |-> h] :
        p \in Optional(Translations2), r \in Optional({30 * One, 90 * One}),
        z \in Optional({2 * One}), w \in {800 * One, 400 * One}, h \in {600 * One}}

\* the content of the out matrix before the call: new, or used before
CameraOuts == {gl_mat4_create, Used4}

Mat4ViewProjection3d ==
    /\ fn = "none"
    /\ \E camera \in Cameras3D, o \in CameraOuts :
        \E r \in {mat4_viewProjection3d(camera, o)} :
            /\ fn' = "mat4.viewProjection3d"
            /\ args' = Of("mat4.viewProjection3d", [camera |-> camera, out |-> o])
            /\ transform' = None
            /\ out' = Of("mat4.viewProjection3d", r.out)
            /\ ret' = Of("mat4.viewProjection3d", r.ret)
            /\ mem' = None

\* mem holds the frustum and the view matrix the call built
Mat4ViewProjection2d ==
    /\ fn = "none"
    /\ \E camera \in Cameras2D, o \in CameraOuts :
        \E r \in {mat4_viewProjection2d(camera, o)} :
            /\ fn' = "mat4.viewProjection2d"
            /\ args' = Of("mat4.viewProjection2d", [camera |-> camera, out |-> o])
            /\ transform' = None
            /\ out' = Of("mat4.viewProjection2d", r.out)
            /\ ret' = Of("mat4.viewProjection2d", r.ret)
            /\ mem' = Of("mat4.viewProjection2d", [frustum |-> r.frustum, view |-> r.view])

NextCamera ==
    \/ Mat4ViewProjection3d
    \/ Mat4ViewProjection2d
    \/ Return

SpecCamera == Init /\ [][NextCamera]_vars

\* ------------------------------------------------------------------------
\* Matrix conversions and setters: one call, then the caller takes the
\* result
\* ------------------------------------------------------------------------

Used3 == [i \in 0..8 |-> (i + 2) * One]
Matrices3 == {mat3_fromMat4(m, gl_mat3_create) : m \in Matrices4} \cup {Used3}

\* mat3.toMat4(m, out), then mat3.fromMat4 of the result: mem.back
Mat3ToMat4 ==
    /\ fn = "none"
    /\ \E m \in Matrices3, o \in CameraOuts :
        \E r \in {mat3_toMat4(m, o)} :
            /\ fn' = "mat3.toMat4"
            /\ args' = Of("mat3.toMat4", [m |-> m, out |-> o])
            /\ transform' = None
            /\ out' = Of("mat3.toMat4", r)
            /\ ret' = Of("mat3.toMat4", "out")
            /\ mem' = Of("mat3.toMat4", [back |-> mat3_fromMat4(r, gl_mat3_create)])

Mat2x3ToMat4 ==
    /\ fn = "none"
    /\ \E m \in Matrices2, o \in CameraOuts :
        \E r \in {mat2x3_toMat4(m, o)} :
            /\ fn' = "mat2x3.toMat4"
            /\ args' = Of("mat2x3.toMat4", [m |-> m, out |-> o])
            /\ transform' = None
            /\ out' = Of("mat2x3.toMat4", r)
            /\ ret' = Of("mat2x3.toMat4", "out")
            /\ mem' = None

\* where a setter writes: m itself, a new matrix, or one used before
SetterTargets == {"m", "new", "used"}
TargetContent4(m, target) ==
    CASE target = "m" -> m [] target = "new" -> gl_mat4_create [] target = "used" -> Used4

\* mem.m is the content of m after the call
Mat4SetRotation ==
    /\ fn = "none"
    /\ \E m \in Matrices4, rotation \in Rotations, target \in SetterTargets :
        \E r \in {mat4_setRotation(m, rotation, TargetContent4(m, target), target = "m")} :
            /\ fn' = "mat4.setRotation"
            /\ args' = Of("mat4.setRotation",
                          [m |-> m, rotation |-> rotation, target |-> target])
            /\ transform' = None
            /\ out' = Of("mat4.setRotation", r)
            /\ ret' = Of("mat4.setRotation", "out")
            /\ mem' = Of("mat4.setRotation", [m |-> IF target = "m" THEN r ELSE m])

TargetContent2(m, target) ==
    CASE target = "m" -> m [] target = "new" -> gl_mat2d_create [] target = "used" -> Used2

Mat4SetTranslation ==
    /\ fn = "none"
    /\ \E m \in Matrices4, translation \in Translations, target \in SetterTargets :
        \E r \in {mat4_setTranslation(m, translation, TargetContent4(m, target))} :
            /\ fn' = "mat4.setTranslation"
            /\ args' = Of("mat4.setTranslation",
                          [m |-> m, translation |-> translation, target |-> target])
            /\ transform' = None
            /\ out' = Of("mat4.setTranslation", r)
            /\ ret' = Of("mat4.setTranslation", "out")
            /\ mem' = Of("mat4.setTranslation", [m |-> IF target = "m" THEN r ELSE m])

Mat2x3SetTranslation ==
    /\ fn = "none"
    /\ \E m \in Matrices2, translation \in Translations2, target \in SetterTargets :
        \E r \in {mat2x3_setTranslation(m, translation, TargetContent2(m, target))} :
            /\ fn' = "mat2x3.setTranslation"
            /\ args' = Of("mat2x3.setTranslation",
                          [m |-> m, translation |-> translation, target |-> target])
            /\ transform' = None
            /\ out' = Of("mat2x3.setTranslation", r)
            /\ ret' = Of("mat2x3.setTranslation", "out")
            /\ mem' = Of("mat2x3.setTranslation", [m |-> IF target = "m" THEN r ELSE m])

\* setScale is called up to MaxCalls times with one scale object
MaxCalls == 2
Positive(S) == {s \in S : \A c \in DOMAIN s : s[c] > 0}
\* the scale objects of a caller: own vectors and the frozen constant
ScaleObjects(S, constant) ==
    {[value |-> s, frozen |-> FALSE] : s \in Positive(S)}
        \cup {[value |-> constant, frozen |-> TRUE]}

\* the scale object of a call: a new one, or the one of the call before
ScaleObjectOf(f, S, constant) ==
    IF fn = f
    THEN {[value |-> mem[f].scale, frozen |-> args[f].frozen]}
    ELSE ScaleObjects(S, constant)

SetScaleEnabled(f) ==
    \/ fn = "none"
    \/ fn = f /\ mem[f].calls < MaxCalls /\ ret[f] # "TypeError"

\* r: the result of the call, [out, scale, error]; mem.scale is the content
\* of the scale object after the call and args.requested its content before
\* the first call
SetScaleDone(f, m, s, target, r) ==
    /\ fn' = f
    /\ args' = Of(f, [m |-> m, scale |-> s.value, frozen |-> s.frozen, target |-> target,
                      requested |-> IF fn = f THEN args[f].requested ELSE s.value])
    /\ transform' = None
    /\ out' = Of(f, r.out)
    /\ ret' = Of(f, IF r.error = "none" THEN "out" ELSE r.error)
    /\ mem' = Of(f, [m |-> IF target = "m" THEN r.out ELSE m, scale |-> r.scale,
                     calls |-> IF fn = f THEN mem[f].calls + 1 ELSE 1])

Mat2x3SetScale ==
    /\ SetScaleEnabled("mat2x3.setScale")
    /\ \E m \in Matrices2, target \in SetterTargets,
          s \in ScaleObjectOf("mat2x3.setScale", Scales2, vec2_one) :
        \E r \in {mat2x3_setScale(m, s.value, s.frozen, TargetContent2(m, target))} :
            SetScaleDone("mat2x3.setScale", m, s, target, r)

Mat4SetScale ==
    /\ SetScaleEnabled("mat4.setScale")
    /\ \E m \in Matrices4, target \in SetterTargets,
          s \in ScaleObjectOf("mat4.setScale", Scales, vec3_one) :
        \E r \in {[out |-> mat4_setScale(m, s.value, TargetContent4(m, target)),
                   scale |-> s.value, error |-> "none"]} :
            SetScaleDone("mat4.setScale", m, s, target, r)

NextMatrix ==
    \/ Mat3ToMat4
    \/ Mat2x3ToMat4
    \/ Mat4SetRotation
    \/ Mat4SetTranslation
    \/ Mat2x3SetTranslation
    \/ Mat2x3SetScale
    \/ Mat4SetScale
    \/ Return

SpecMatrix == Init /\ [][NextMatrix]_vars

\* ------------------------------------------------------------------------
\* Vector calls: one call of a constructor, then the caller takes the result
\* ------------------------------------------------------------------------

MaxArgs == 3
ArgValues ==
    {Number(One), Number(2 * One), Undefined, Object2(V2(One, 2 * One)),
     Object3(V3(One, 2 * One, 3 * One))}
\* the argument lists: every list of up to MaxArgs values, and the lists of
\* MaxArgs + 1 numbers
ArgLists ==
    UNION {[1..n -> ArgValues] : n \in 0..MaxArgs}
        \cup [1..(MaxArgs + 1) -> {Number(One), Number(2 * One)}]

Construct(f, a) ==
    CASE f = "vec2.new"   -> vec2_new(a)
      [] f = "vec3.new"   -> vec3_new(a)
      [] f = "vec4.new"   -> vec4_new(a)
      [] f = "vec2.const" -> vec2_const(a)
      [] f = "vec3.const" -> vec3_const(a)
      [] f = "vec4.const" -> vec4_const(a)

VecNew ==
    /\ fn = "none"
    /\ \E f \in {"vec2.new", "vec3.new", "vec4.new"}, a \in ArgLists :
        /\ fn' = f
        /\ args' = Of(f, a)
        /\ ret' = Of(f, Construct(f, a))
        /\ transform' = None
        /\ out' = None
        /\ mem' = None

VecConst ==
    /\ fn = "none"
    /\ \E f \in {"vec2.const", "vec3.const", "vec4.const"}, a \in ArgLists :
        /\ fn' = f
        /\ args' = Of(f, a)
        /\ ret' = Of(f, Construct(f, a))
        /\ transform' = None
        /\ out' = None
        /\ mem' = None

\* Euler angles in degrees; every field of an Euler record may be missing
EulerDegrees == {45 * One, 90 * One}
EulerOrders ==
    {"YawPitchRoll", "RollPitchYaw", "PitchYawRoll", "RollYawPitch", "PitchRollYaw",
     "YawRollPitch"}
Eulers ==
    [order : Optional(EulerOrders), pitch : Optional(EulerDegrees),
     yaw : Optional(EulerDegrees), roll : Optional(EulerDegrees)]

\* euler after fromEuler: the ??= assignments fill the missing fields
quat_fromEuler_filled(euler) ==
    [order |-> OrDefault(euler.order, "PitchYawRoll"), pitch |-> OrDefault(euler.pitch, 0),
     yaw |-> OrDefault(euler.yaw, 0), roll |-> OrDefault(euler.roll, 0)]

QuatFromEuler ==
    /\ fn = "none"
    /\ \E euler \in Eulers :
        /\ fn' = "quat.fromEuler"
        /\ args' = Of("quat.fromEuler", euler)
        /\ ret' = Of("quat.fromEuler", "out")
        /\ transform' = None
        /\ out' = Of("quat.fromEuler", quat_fromEuler(euler))
        /\ mem' = Of("quat.fromEuler", quat_fromEuler_filled(euler))

\* the vectors and the alphas handed to lerp
LerpVectors(f) ==
    CASE f = "vec2.lerp" -> {V2(0, One), V2(2 * One, 4 * One), V2(-One, 3 * One)}
      [] f = "vec3.lerp" -> {V3(0, One, 2 * One), V3(2 * One, 4 * One, -One),
                             V3(-One, 3 * One, One)}
      [] f = "vec4.lerp" -> {Q4(0, One, 2 * One, One), Q4(2 * One, 4 * One, -One, 0),
                             Q4(-One, 3 * One, One, 2 * One)}
LerpAlphaVectors(f) ==
    CASE f = "vec2.lerp" -> {V2(Half, One \div 4), V2(One, One)}
      [] f = "vec3.lerp" -> {V3(Half, One \div 4, One), V3(One, One, One)}
      [] f = "vec4.lerp" -> {Q4(Half, One \div 4, One, 0), Q4(One, One, One, One)}
LerpAlphas(f) ==
    {[kind |-> "number", n |-> n, v |-> CHOOSE v \in LerpAlphaVectors(f) : TRUE] :
        n \in {0, Half, One}}
        \cup {[kind |-> "vector", n |-> 0, v |-> v] : v \in LerpAlphaVectors(f)}

VecLerp ==
    /\ fn = "none"
    /\ \E f \in {"vec2.lerp", "vec3.lerp", "vec4.lerp"} :
        \E a, b \in LerpVectors(f), alpha \in LerpAlphas(f) :
            /\ fn' = f
            /\ args' = Of(f, [a |-> a, b |-> b, alpha |-> alpha])
            /\ ret' = Of(f, "out")
            /\ transform' = None
            /\ out' = Of(f, vec_lerp(f, a, b, alpha))
            /\ mem' = None

NextVector ==
    \/ VecNew
    \/ VecConst
    \/ QuatFromEuler
    \/ VecLerp
    \/ Return

SpecVector == Init /\ [][NextVector]_vars

\* ------------------------------------------------------------------------
\* One 3D transform record of a caller, reused across calls: mem.heap holds
\* the objects by name, transform.record the record, whose translation,
\* rotation and scale fields refer to objects of the heap
\* ------------------------------------------------------------------------

\* made with Object.freeze()
FrozenObjects3 == {"vec3.zero", "quat.idt", "vec3.one"}

\* the caller's own objects hold what vec3.new(), quat.new() and vec3.new(1)
\* return until they are written
HeapInit3 ==
    [n \in FrozenObjects3 \cup {"t", "r", "s"} |->
        CASE n = "vec3.zero" -> vec3_zero
          [] n = "quat.idt"  -> quat_idt
          [] n = "vec3.one"  -> vec3_one
          [] n = "t"         -> vec3_new0
          [] n = "r"         -> quat_new
          [] n = "s"         -> vec3_new1(One)]

Deref3(heap, record) ==
    [translation |-> {heap[n] : n \in record.translation},
     rotation    |-> {heap[n] : n \in record.rotation},
     scale       |-> {heap[n] : n \in record.scale},
     order       |-> record.order]

\* compose(record, out) with r what compose makes of the contents: the
\* record keeps the objects it had and gets the constants themselves for the
\* fields it lacked
mat4_compose_at(record, r) ==
    [ret    |-> r.ret,
     out    |-> r.out,
     record |-> [translation |-> OrDefault(record.translation, "vec3.zero"),
                 rotation    |-> OrDefault(record.rotation, "quat.idt"),
                 scale       |-> OrDefault(record.scale, "vec3.one"),
                 order       |-> r.transform.order]]

\* the writes of decompose in their order, t, r and s the objects of the
\* filled record: getTranslation, getRotation, getScale; the first write to
\* a frozen object throws (module code is strict) and ends the call
mat4_decompose_writes(heap, filled, m, t, r, s) ==
    IF t \in FrozenObjects3
    THEN [ret |-> "TypeError", heap |-> heap, record |-> filled]
    ELSE IF r \in FrozenObjects3
    THEN [ret    |-> "TypeError",
          heap   |-> [heap EXCEPT ![t] = mat4_getTranslation(m, heap[t])],
          record |-> filled]
    ELSE IF s \in FrozenObjects3
    THEN [ret    |-> "TypeError",
          heap   |-> [heap EXCEPT ![t] = mat4_getTranslation(m, heap[t]),
                                  ![r] = mat4_getRotation(m, heap[r])],
          record |-> filled]
    ELSE [ret    |-> "TRS",
          heap   |-> [heap EXCEPT ![t] = mat4_getTranslation(m, heap[t]),
                                  ![r] = mat4_getRotation(m, heap[r]),
                                  ![s] = mat4_getScale(m, heap[s])],
          record |-> filled]

\* decompose(m, record): the missing fields get new objects first
mat4_decompose_filled(record) ==
    [translation |-> OrDefault(record.translation, "t"),
     rotation    |-> OrDefault(record.rotation, "r"),
     scale       |-> OrDefault(record.scale, "s"),
     order       |-> record.order]

mat4_decompose_into(heap, filled, m) ==
    mat4_decompose_writes(heap, filled, m, Value(filled.translation),
                          Value(filled.rotation), Value(filled.scale))

mat4_decompose_at(heap, record, m) ==
    mat4_decompose_into(heap, mat4_decompose_filled(record), m)

\* the records a caller makes: each field missing or an object of its own
Records3 ==
    [translation : Optional({"t"}), rotation : Optional({"r"}), scale : Optional({"s"}),
     order : Optional({"TRS", "SRT"})]

InitRecord ==
    /\ fn = "none"
    /\ args = None
    /\ transform = Of("record", NoTransform)
    /\ out = None
    /\ ret = None
    /\ mem = Of("heap", HeapInit3)

\* the caller starts over with a new record, its own translation set
RecordNew ==
    \E record \in Records3, translation \in Translations :
        /\ fn' = "record.new"
        /\ args' = None
        /\ transform' = Of("record", record)
        /\ mem' = Of("heap", [HeapInit3 EXCEPT !["t"] = translation])
        /\ out' = None
        /\ ret' = None

\* mat4.compose(record)
RecordCompose ==
    \E r \in {mat4_compose_at(transform.record,
                  mat4_compose(Deref3(mem.heap, transform.record), gl_mat4_create))} :
        /\ fn' = "mat4.compose"
        /\ args' = None
        /\ transform' = Of("record", r.record)
        /\ out' = Of("mat4.compose", r.out)
        /\ ret' = Of("mat4.compose", r.ret)
        /\ UNCHANGED mem

\* mat4.decompose(m, record)
RecordDecompose ==
    \E m \in Matrices4 :
        \E r \in {mat4_decompose_at(mem.heap, transform.record, m)} :
            /\ fn' = "mat4.decompose"
            /\ args' = Of("mat4.decompose", [m |-> m])
            /\ transform' = Of("record", r.record)
            /\ mem' = Of("heap", r.heap)
            /\ out' = None
            /\ ret' = Of("mat4.decompose", r.ret)

NextRecord ==
    \/ RecordNew
    \/ RecordCompose
    \/ RecordDecompose

SpecRecord == InitRecord /\ [][NextRecord]_vars

\* ------------------------------------------------------------------------
\* Properties of compose
\* ------------------------------------------------------------------------

\* the letters of a legal order, first to last
Letters(order) ==
    CASE order = "TRS" -> << "T", "R", "S" >>
      [] order = "RTS" -> << "R", "T", "S" >>
      [] order = "STR" -> << "S", "T", "R" >>
      [] order = "SRT" -> << "S", "R", "T" >>
      [] order = "RST" -> << "R", "S", "T" >>
      [] order = "TSR" -> << "T", "S", "R" >>

\* the matrix product written with rows and columns: entry (r, c) of a
\* column-major matrix with n rows is m[n * c + r]
Product4(a, b) ==
    [i \in 0..15 |->
        LET r == i % 4
            c == i \div 4
        IN  Mul(a[r], b[4 * c]) + Mul(a[4 + r], b[4 * c + 1])
            + Mul(a[8 + r], b[4 * c + 2]) + Mul(a[12 + r], b[4 * c + 3])]

\* the product of two affine 2D matrices, their third row being (0, 0, 1)
Product2(a, b) ==
    [i \in 0..5 |->
        LET r == i % 2
            c == i \div 2
        IN  Mul(a[r], b[2 * c]) + Mul(a[2 + r], b[2 * c + 1])
            + (IF c = 2 THEN a[4 + r] ELSE 0)]

Elementary4(letter, t) ==
    CASE letter = "T" -> mat4_fromTranslation(Value(t.translation), gl_mat4_create)
      [] letter = "R" -> mat4_fromRotation(Value(t.rotation), gl_mat4_create)
      [] letter = "S" -> mat4_fromScale(Value(t.scale), gl_mat4_create)

Elementary2(letter, t) ==
    CASE letter = "T" -> mat2x3_fromTranslation(Value(t.translation), gl_mat2d_create)
      [] letter = "R" -> mat2x3_fromRotation(Value(t.rotation), gl_mat2d_create)
      [] letter = "S" -> mat2x3_fromScale(Value(t.scale), gl_mat2d_create)

LegalOrder(t) == t.order # {} /\ Value(t.order) \in Orders

\* C1: for each of the six legal orders mat4.compose and mat2x3.compose
\* leave in out the product of the three elementary matrices multiplied
\* left to right in the order of the letters, and return out.
C1_ComposeIsProductInLetterOrder ==
    /\ (fn = "mat4.compose" /\ LegalOrder(transform[fn])) =>
          LET l == Letters(Value(transform[fn].order))
          IN  /\ ret[fn] = "out"
              /\ out[fn] = Product4(Product4(Elementary4(l[1], transform[fn]),
                                         Elementary4(l[2], transform[fn])),
                                Elementary4(l[3], transform[fn]))
    /\ (fn = "mat2x3.compose" /\ LegalOrder(transform[fn])) =>
          LET l == Letters(Value(transform[fn].order))
          IN  /\ ret[fn] = "out"
              /\ out[fn] = Product2(Product2(Elementary2(l[1], transform[fn]),
                                         Elementary2(l[2], transform[fn])),
                                Elementary2(l[3], transform[fn]))

C1_Witness ==
    /\ fn = "mat4.compose"
    /\ args[fn].transform = Full(Transform(TranslationTable[1], RotY90, ScaleTable[1], "SRT"))
    /\ args[fn].out = Used4
    /\ ret[fn] = "out"
    /\ out[fn] # Composed4(Transform(TranslationTable[1], RotY90, ScaleTable[1], "TRS"))

\* the defaults, written out
Defaulted4(t) ==
    [translation |-> IF t.translation = {} THEN {V3(0, 0, 0)} ELSE t.translation,
     rotation    |-> IF t.rotation = {} THEN {Q4(0, 0, 0, One)} ELSE t.rotation,
     scale       |-> IF t.scale = {} THEN {V3(One, One, One)} ELSE t.scale,
     order       |-> IF t.order = {} THEN {"TRS"} ELSE t.order]

Defaulted2(t) ==
    [translation |-> IF t.translation = {} THEN {V2(0, 0)} ELSE t.translation,
     rotation    |-> IF t.rotation = {} THEN {0} ELSE t.rotation,
     scale       |-> IF t.scale = {} THEN {V2(One, One)} ELSE t.scale,
     order       |-> IF t.order = {} THEN {"TRS"} ELSE t.order]

Identity4 == [i \in 0..15 |-> IF i \in {0, 5, 10, 15} THEN One ELSE 0]
Identity2 == [i \in 0..5 |-> IF i \in {0, 3} THEN One ELSE 0]

\* C2: compose of a transform with no field set leaves exactly the identity
\* in out, whatever out held, and a transform with a field missing composes
\* as the one with zero translation, identity rotation, scale one or order
\* TRS in its place.
C2_ComposeDefaults ==
    /\ (fn = "mat4.compose" /\ args[fn].transform = NoTransform) =>
          ret[fn] = "out" /\ out[fn] = Identity4
    /\ fn = "mat4.compose" =>
          LET r == mat4_compose(Defaulted4(args[fn].transform), args[fn].out)
          IN  out[fn] = r.out /\ ret[fn] = r.ret
    /\ (fn = "mat2x3.compose" /\ args[fn].transform = NoTransform) =>
          ret[fn] = "out" /\ out[fn] = Identity2
    /\ fn = "mat2x3.compose" =>
          LET r == mat2x3_compose(Defaulted2(args[fn].transform), args[fn].out)
          IN  out[fn] = r.out /\ ret[fn] = r.ret

C2_Witness ==
    /\ fn = "mat4.compose"
    /\ args[fn].transform = NoTransform
    /\ args[fn].out = Used4
    /\ out[fn] = Identity4

\* ------------------------------------------------------------------------
\* Properties of decompose
\* ------------------------------------------------------------------------

Within(a, b) == Abs(a - b) < One \div Kilo
Within3(a, b) == Within(a.x, b.x) /\ Within(a.y, b.y) /\ Within(a.z, b.z)
Within4(a, b) == Within(a.x, b.x) /\ Within(a.y, b.y) /\ Within(a.z, b.z) /\ Within(a.w, b.w)
Negated4(q) == Q4(-q.x, -q.y, -q.z, -q.w)

AllNonZero3(s) == s.x # 0 /\ s.y # 0 /\ s.z # 0
AllPositive3(s) == s.x > 0 /\ s.y > 0 /\ s.z > 0
Uniform3(s) == s.x = s.y /\ s.y = s.z

Decomposed4(m) == mat4_decompose(m, NoTransform).ret

\* a call of mat4.compose that returned a matrix composed in one of orders
ComposedIn(orders) ==
    /\ fn = "mat4.compose"
    /\ ret[fn] = "out"
    /\ Value(transform[fn].order) \in orders

\* C3 as stated: decomposing a TRS composition gives back T, R and S within
\* 0.001 and order TRS whenever no component of S is zero, and decompose
\* reports order TRS for every matrix.
C3_RoundTripNonZeroScale ==
    /\ (ComposedIn({"TRS"}) /\ AllNonZero3(Value(transform[fn].scale))) =>
          LET d == Decomposed4(out[fn])
          IN  /\ Within3(d.translation, Value(transform[fn].translation))
              /\ Within4(d.rotation, Value(transform[fn].rotation))
              /\ Within3(d.scale, Value(transform[fn].scale))
              /\ d.order = "TRS"
    /\ fn = "mat4.decompose" => ret[fn].order = "TRS"

\* C3: decomposing a TRS composition gives back T and S within 0.001, R or
\* its negation (the same rotation) within 0.001 and order TRS whenever
\* every component of S is positive, and decompose reports order TRS for
\* every matrix.
C3_RoundTripPositiveScale ==
    /\ (ComposedIn({"TRS"}) /\ AllPositive3(Value(transform[fn].scale))) =>
          LET d == Decomposed4(out[fn])
          IN  /\ Within3(d.translation, Value(transform[fn].translation))
              /\ \/ Within4(d.rotation, Value(transform[fn].rotation))
                 \/ Within4(d.rotation, Negated4(Value(transform[fn].rotation)))
              /\ Within3(d.scale, Value(transform[fn].scale))
              /\ d.order = "TRS"
    /\ fn = "mat4.decompose" => ret[fn].order = "TRS"

C3_Witness ==
    /\ ComposedIn({"TRS"})
    /\ Value(transform[fn].translation) = TranslationTable[2]
    /\ Value(transform[fn].rotation) = RotZ74
    /\ Value(transform[fn].scale) = ScaleTable[4]
    /\ Within4(Decomposed4(out[fn]).rotation, RotZ74)

Recomposed4(m) == mat4_compose(Full(Decomposed4(m)), gl_mat4_create).out

C5_LerpEndpoints ==
    /\ (fn = "mat4.lerp" /\ args[fn].alpha = 0) => mat4_transformEquals(out[fn], args[fn].a, {})
    /\ (fn = "mat4.lerp" /\ args[fn].alpha = One) => mat4_transformEquals(out[fn], args[fn].b, {})

Blend(a, b, alpha) == a + Mul(b - a, alpha)
Blend3(a, b, alpha) ==
    V3(Blend(a.x, b.x, alpha), Blend(a.y, b.y, alpha), Blend(a.z, b.z, alpha))

\* C6: mat4.lerp(a, b, alpha) returns out holding the TRS composition of the
\* translation tA + (tB - tA) * alpha, the rotation slerp(rA, rB, alpha) and
\* the scale sA + (sB - sA) * alpha, where (tA, rA, sA) and (tB, rB, sB) are
\* the decompositions of a and b; alpha is taken as it is, also outside [0, 1].
C6_LerpComposesInterpolated ==
    fn = "mat4.lerp" =>
        LET dA == Decomposed4(args[fn].a)
            dB == Decomposed4(args[fn].b)
            alpha == args[fn].alpha
        IN  /\ ret[fn] = "out"
            /\ out[fn] = Composed4(Transform(Blend3(dA.translation, dB.translation, alpha),
                                             quat_slerp(dA.rotation, dB.rotation, alpha),
                                             Blend3(dA.scale, dB.scale, alpha),
                                             "TRS"))

\* alpha = 1.5 has moved the translation further from a's than b's is
C6_Witness ==
    /\ fn = "mat4.lerp"
    /\ args[fn].alpha = 3 * Half
    /\ args[fn].out = Used4
    /\ Abs(out[fn][12] - args[fn].a[12]) > Abs(args[fn].b[12] - args[fn].a[12])

\* an angle brought back into (-Pi, Pi]
Wrapped(x) == IF x > Pi THEN x - 2 * Pi ELSE IF x <= -Pi THEN x + 2 * Pi ELSE x

\* C7: mat2x3.lerp interpolates the rotation along the shortest arc between
\* the decomposed angles of a and b: for alpha in [0, 1] the rotation of the
\* result is rA + alpha * d within 0.001, d being rB - rA brought back into
\* (-Pi, Pi], so that the midpoint of 170 and -170 degrees is at 180 degrees.
C7_Lerp2DShortestArc ==
    (fn = "mat2x3.lerp" /\ args[fn].alpha >= 0 /\ args[fn].alpha <= One) =>
        LET rA == mat2x3_getRotation(args[fn].a)
            rB == mat2x3_getRotation(args[fn].b)
            expected == rA + Mul(Wrapped(rB - rA), args[fn].alpha)
        IN  Within(Wrapped(mat2x3_getRotation(out[fn]) - expected), 0)

C8_TRS == Composed4(Transform(V3(One, 0, 0), RotY90, V3(2 * One, One, One), "TRS"))
C8_SRT == Composed4(Transform(V3(One, 0, 0), RotY90, V3(2 * One, One, One), "SRT"))

\* C8: the TRS and the SRT composition of T = (1,0,0), R = 90 degrees about
\* Y and S = (2,1,1) are unequal by mat4.equals and by mat4.transformEquals,
\* at the default tolerance and in either order of the arguments.
C8_OrderMatters ==
    (/\ fn \in {"mat4.equals", "mat4.transformEquals"}
     /\ args[fn].tolerance = {}
     /\ {args[fn].a, args[fn].b} = {C8_TRS, C8_SRT}) =>
        ret[fn] = FALSE

C8_Witness ==
    /\ fn = "mat4.transformEquals"
    /\ args[fn].a = C8_TRS
    /\ args[fn].b = C8_SRT
    /\ C8_TRS # C8_SRT
    /\ ret[fn] = FALSE

\* ------------------------------------------------------------------------
\* Properties of equals
\* ------------------------------------------------------------------------

AllWithin(a, b, tolerance) == \A i \in DOMAIN a : Abs(a[i] - b[i]) < tolerance
ToleranceOf(t) == IF t = {} THEN One \div Kilo ELSE Value(t)
EqualsCalled == fn \in {"mat4.equals", "mat2x3.equals"}
Equals(a, b, tolerance) ==
    IF fn = "mat4.equals" THEN mat4_equals(a, b, tolerance) ELSE mat2x3_equals(a, b, tolerance)

\* C9 as stated: equals is true exactly when every pair of coefficients
\* differs by less than the tolerance (0.001 when omitted), it is symmetric,
\* and a matrix equals itself at every tolerance.
C9_EqualsAtEveryTolerance ==
    EqualsCalled =>
        /\ ret[fn] = AllWithin(args[fn].a, args[fn].b, ToleranceOf(args[fn].tolerance))
        /\ ret[fn] = Equals(args[fn].b, args[fn].a, args[fn].tolerance)
        /\ Equals(args[fn].a, args[fn].a, args[fn].tolerance)

\* C9: equals is true exactly when every pair of coefficients differs by
\* less than the tolerance (0.001 when omitted), it is symmetric, and a
\* matrix equals itself at every tolerance greater than 0.
C9_EqualsAtPositiveTolerance ==
    EqualsCalled =>
        /\ ret[fn] = AllWithin(args[fn].a, args[fn].b, ToleranceOf(args[fn].tolerance))
        /\ ret[fn] = Equals(args[fn].b, args[fn].a, args[fn].tolerance)
        /\ ToleranceOf(args[fn].tolerance) > 0 =>
              Equals(args[fn].a, args[fn].a, args[fn].tolerance)

\* one coefficient differs by the tolerance exactly, the others not at all
C9_Witness ==
    /\ fn = "mat4.equals"
    /\ args[fn].tolerance = {}
    /\ args[fn].b = Moved(args[fn].a, 6, One \div Kilo)
    /\ ret[fn] = FALSE

\* ------------------------------------------------------------------------
\* compose with an order that is none of the six
\* ------------------------------------------------------------------------

\* C10: compose called with an order that is none of the six returns
\* undefined and leaves out as it was before the call.
C10_UnknownOrder ==
    (fn \in {"mat4.compose", "mat2x3.compose"} /\ ~LegalOrder(transform[fn])) =>
        /\ ret[fn] = "undefined"
        /\ out[fn] = args[fn].out

C10_Witness ==
    /\ fn = "mat4.compose"
    /\ args[fn].transform.order = {"XYZ"}
    /\ args[fn].out = Used4
    /\ ret[fn] = "undefined"
    /\ out[fn] = Used4

\* ------------------------------------------------------------------------
\* What a call leaves in the objects of its caller
\* ------------------------------------------------------------------------

\* C11: compose writes only to out: after the call the caller's transform
\* record has exactly the fields and values it had before the call, a
\* missing field being still missing.
C11_ComposeWritesOnlyOut ==
    fn \in {"mat4.compose", "mat2x3.compose"} => transform[fn] = args[fn].transform

\* C12: decompose returns the out record it was given: once the call has
\* returned, out and the returned record are one object, so they hold the
\* same fields, the decomposed translation, rotation and scale and the
\* order "TRS".
C12_DecomposeReturnsOut ==
    fn = "mat4.decompose" =>
        /\ transform[fn] = Full(ret[fn])
        /\ transform[fn].order = {"TRS"}

\* C13: lerp with out being a or b leaves in out the matrix that lerp
\* returns with a new out, and does not change the input that is not out.
C13_LerpAliasedOut ==
    fn = "mat4.lerp" =>
        /\ out[fn] = mat4_lerp(args[fn].a, args[fn].b, args[fn].alpha, gl_mat4_create).out
        /\ args[fn].target # "a" => mem[fn]["a"] = args[fn].a
        /\ args[fn].target # "b" => mem[fn]["b"] = args[fn].b
        /\ ret[fn] = "out"

\* out is a, and the call has changed it; b is another matrix
C13_Witness ==
    /\ fn = "mat4.lerp"
    /\ args[fn].target = "a"
    /\ args[fn].alpha = Half
    /\ args[fn].a # args[fn].b
    /\ mem[fn]["a"] # args[fn].a
    /\ mem[fn]["b"] = args[fn].b

\* ------------------------------------------------------------------------
\* Views over an array
\* ------------------------------------------------------------------------

\* the place in the array of the component the last access named
Place == args[fn].offset + Component(args[fn].component)

\* C14: a write of a component through a view made by ref(arr, offset)
\* writes arr[offset + 0..3] at the place of the component and nothing
\* else; a view made by refConst over the array reads, whatever was written
\* before through views or to the array itself, what the array holds now,
\* and a write through it changes nothing.
C14_ViewsShareTheArray ==
    /\ fn = "ref.set" => mem.arr = [args[fn].before EXCEPT ![Place] = args[fn].value]
    /\ fn \in {"ref.get", "refConst.get"} => ret[fn] = mem.arr[Place]
    /\ fn = "refConst.set" => mem.arr = args[fn].before /\ ret[fn] = "TypeError"
    /\ \A offset \in Offsets, c \in Components :
            ConstRefVector_get(mem.arr, offset, c) = mem.arr[offset + Component(c)]

\* x has been written through a view at offset 2 of an array written before;
\* a view made by refConst at offset 2 reads it, one at offset 1 reads it as y
C14_Witness ==
    /\ fn = "ref.set"
    /\ args[fn].offset = 2
    /\ args[fn].component = "x"
    /\ args[fn].before[2] # args[fn].value
    /\ args[fn].before[3] # 0
    /\ ConstRefVector_get(mem.arr, 2, "x") = args[fn].value
    /\ ConstRefVector_get(mem.arr, 1, "y") = args[fn].value

\* C15: element i of the matrix made by ref(data, offset) is element
\* offset + i of data: a write to it is read back through data there, and
\* no other element of the buffer changes.
C15_RefAliasesData ==
    fn = "mat.ref" =>
        mem[fn] = [args[fn].buffer EXCEPT
                      ![Float32Array_at(args[fn].data, args[fn].offset + args[fn].i)] = 0]

\* ------------------------------------------------------------------------
\* The shared constants
\* ------------------------------------------------------------------------

\* C16: in every state reachable by the library's operations the shared
\* constants hold their initial values, also when a constant that compose
\* stored into the record, or one the caller names, is the output of a call
C16_ConstantsKeepValues ==
    \A n \in SharedConstants : mem.heap[n] = HeapInit[n]

\* ------------------------------------------------------------------------
\* Cameras
\* ------------------------------------------------------------------------

\* the camera with the documented default in each field it lacks
Defaulted3D(camera) ==
    [position |-> OrDefault(camera.position, vec3_zero),
     rotation |-> OrDefault(camera.rotation, quat_idt),
     fov      |-> OrDefault(camera.fov, 45 * One),
     aspect   |-> camera.aspect,
     near     |-> OrDefault(camera.near, One \div 10),
     far      |-> OrDefault(camera.far, Kilo * One)]

UnitOf(v) == vec3_normalize(v, vec3_new0)
Forward(rotation) == UnitOf(vec3_rotate(vec3_forward, rotation, vec3_new0))
Up(rotation) == UnitOf(vec3_negate(vec3_rotate(vec3_up, rotation, vec3_new0), vec3_new0))

View3D(position, rotation) ==
    mat4_lookAt(position, vec3_add(position, Forward(rotation), vec3_new0), Up(rotation),
                gl_mat4_create)

Projection3D(c) ==
    mat4_perspectiveProjection(Value(c.fov), c.aspect, Value(c.near), Value(c.far),
                               gl_mat4_create)

ProjectionTimesView(c) ==
    Product4(Projection3D(c), View3D(Value(c.position), Value(c.rotation)))

\* C17: a call of viewProjection3d that returns leaves in out the product
\* projection * view, projection the perspective projection of the camera's
\* fov (degrees), aspect, near and far, view = lookAt(position, position +
\* forward', up'), forward' the unit world-forward vector rotated by the
\* camera's rotation and up' the unit negated rotated world-up vector
C17_ViewProjection3d ==
    (fn = "mat4.viewProjection3d" /\ ret[fn] = "out") =>
        out[fn] = ProjectionTimesView(Defaulted3D(args[fn].camera))

C17_Witness ==
    /\ fn = "mat4.viewProjection3d"
    /\ ret[fn] = "out"
    /\ args[fn].camera.position = {TranslationTable[2]}
    /\ args[fn].camera.rotation = {RotY90}
    /\ args[fn].camera.fov = {60 * One}
    /\ args[fn].out = Used4
    /\ out[fn] # Used4

\* C18: viewProjection3d raises no error for a camera that lacks fields and
\* returns what it returns for the camera with position (0,0,0), rotation
\* identity, fov 45, near 0.1 and far 1000 in the place of each missing field
C18_DefaultsForMissingFields ==
    fn = "mat4.viewProjection3d" =>
        /\ ret[fn] = "out"
        /\ out[fn] = mat4_viewProjection3d(Defaulted3D(args[fn].camera), args[fn].out).out

\* C19: the result of viewProjection2d changes with the camera's position
\* and does not change with the content out had before the call
C19_ViewProjection2dOfPosition ==
    fn = "mat4.viewProjection2d" =>
        /\ \A p \in Optional(Translations2) :
               OrDefault(p, vec2_zero) # OrDefault(args[fn].camera.position, vec2_zero) =>
                   mat4_viewProjection2d([args[fn].camera EXCEPT !.position = p],
                                         args[fn].out).out # out[fn]
        /\ \A o \in CameraOuts : mat4_viewProjection2d(args[fn].camera, o).out = out[fn]

\* C20: the frustum viewProjection2d hands to orthographicProjection has
\* left = -1 / zoom, right = 1 / zoom, bottom = top = zoom * aspect, near =
\* -1 and far = 1, with aspect = height / width and zoom 1 when missing; the
\* result is the orthographic projection of that frustum times the view
Zoom(camera) == Value(OrDefault(camera.zoom, One))
Aspect2D(camera) == Over(camera.height, camera.width)

C20_Frustum2D ==
    fn = "mat4.viewProjection2d" =>
        /\ mem[fn].frustum.left = Over(-One, Zoom(args[fn].camera))
        /\ mem[fn].frustum.right = Over(One, Zoom(args[fn].camera))
        /\ mem[fn].frustum.bottom = Mul(Zoom(args[fn].camera), Aspect2D(args[fn].camera))
        /\ mem[fn].frustum.top = mem[fn].frustum.bottom
        /\ mem[fn].frustum.near = -One
        /\ mem[fn].frustum.far = One
        /\ out[fn] = mat4_mul(OrthographicOf(mem[fn].frustum), mem[fn].view, gl_mat4_create)

C20_Witness ==
    /\ fn = "mat4.viewProjection2d"
    /\ args[fn].camera.zoom = {2 * One}
    /\ args[fn].camera.width = 800 * One
    /\ mem[fn].frustum.top = 3 * Half
    /\ mem[fn].frustum.bottom = 3 * Half
    /\ mem[fn].frustum.left = -Half

\* ------------------------------------------------------------------------
\* Conversions between the matrix types
\* ------------------------------------------------------------------------

\* C21: mat3.toMat4(m, out) leaves in out the 3x3 block m, zero translation
\* elements and the homogeneous elements (0, 0, 0, 1), whatever out held
\* before; and mat3.fromMat4 of the result is m
C21_ToMat4Embeds ==
    fn = "mat3.toMat4" =>
        /\ \A r, c \in 0..2 : out[fn][4 * c + r] = args[fn].m[3 * c + r]
        /\ \A i \in {12, 13, 14} : out[fn][i] = 0
        /\ <<out[fn][3], out[fn][7], out[fn][11], out[fn][15]>> = <<0, 0, 0, One>>
        /\ mem[fn].back = args[fn].m

C21_Witness ==
    /\ fn = "mat3.toMat4"
    /\ args[fn].out = Used4
    /\ args[fn].m # gl_mat3_create
    /\ args[fn].m # Used3
    /\ out[fn][12] = 0

\* C22: mat2x3.toMat4(m) has the linear part of m as its upper-left 2x2
\* block (the rotation about Z is by the angle of m), the translation
\* (m[4], m[5], 0) and the scale 1 along Z
C22_ToMat4KeepsLinearPart ==
    fn = "mat2x3.toMat4" =>
        /\ Within(out[fn][0], args[fn].m[0])
        /\ Within(out[fn][1], args[fn].m[1])
        /\ Within(out[fn][4], args[fn].m[2])
        /\ Within(out[fn][5], args[fn].m[3])
        /\ Within(out[fn][12], args[fn].m[4])
        /\ Within(out[fn][13], args[fn].m[5])
        /\ out[fn][14] = 0
        /\ Within(out[fn][10], One)

\* ------------------------------------------------------------------------
\* Constructors
\* ------------------------------------------------------------------------

ComponentsOf(f) ==
    CASE f \in {"vec2.new", "vec2.const"} -> {"x", "y"}
      [] f \in {"vec3.new", "vec3.const"} -> {"x", "y", "z"}
      [] f \in {"vec4.new", "vec4.const"} -> {"x", "y", "z", "w"}

\* C23: vec3.new and vec4.new return a vector whose components are all
\* numbers, or throw: no argument list gives a vector with a component that
\* is missing or not a number
C23_NewFailsFast ==
    (fn \in {"vec3.new", "vec4.new"} /\ ret[fn].ret = "vector") =>
        \A c \in ComponentsOf(fn) : ret[fn][c].kind = "number"

NewOf(f) ==
    CASE f = "vec2.const" -> "vec2.new" [] f = "vec3.const" -> "vec3.new"
      [] f = "vec4.const" -> "vec4.new"

\* the documented call shapes of new and const: no argument, one number,
\* one number for each component
Documented(f, a) ==
    /\ Len(a) \in {0, 1, Cardinality(ComponentsOf(f))}
    /\ \A i \in 1..Len(a) : a[i].kind = "number"

\* C24: const, called as documented, returns without error a frozen vector
\* with the components the matching call of new returns
C24_ConstIsFrozenNew ==
    (fn \in {"vec2.const", "vec3.const", "vec4.const"} /\ Documented(fn, args[fn])) =>
        /\ ret[fn].ret = "vector"
        /\ ret[fn].frozen
        /\ \A c \in ComponentsOf(fn) : ret[fn][c] = Construct(NewOf(fn), args[fn])[c]

\* ------------------------------------------------------------------------
\* Setters
\* ------------------------------------------------------------------------

SameRotation(p, q) == Within4(p, q) \/ Within4(p, Negated4(q))

\* C25: setRotation(m, rotation, out), out another matrix than m, leaves m
\* as it was and puts into out a matrix whose decomposition has the rotation
\* given and the translation and the scale of m
C25_SetRotationReplaces ==
    (fn = "mat4.setRotation" /\ args[fn].target # "m") =>
        /\ mem[fn].m = args[fn].m
        /\ SameRotation(Decomposed4(out[fn]).rotation, args[fn].rotation)
        /\ Within3(Decomposed4(out[fn]).translation, Decomposed4(args[fn].m).translation)
        /\ Within3(Decomposed4(out[fn]).scale, Decomposed4(args[fn].m).scale)
\* the matrix m with its translation replaced, for the 4x4 case
Translated4(m, translation) ==
    [i \in 0..15 |-> CASE i = 12 -> translation.x [] i = 13 -> translation.y
                       [] i = 14 -> translation.z [] OTHER -> m[i]]

\* C26: mat2x3.setTranslation(m, translation, out) puts into out the matrix m
\* with its translation replaced, whatever out held before, as
\* mat4.setTranslation does for the 4x4 case
C26_SetTranslationCopiesM ==
    /\ fn = "mat2x3.setTranslation" =>
        /\ \A i \in 0..3 : out[fn][i] = args[fn].m[i]
        /\ out[fn][4] = args[fn].translation.x
        /\ out[fn][5] = args[fn].translation.y
    /\ fn = "mat4.setTranslation" =>
        out[fn] = Translated4(args[fn].m, args[fn].translation)
Within2(a, b) == Within(a.x, b.x) /\ Within(a.y, b.y)

\* C27: setScale leaves the caller's scale vector as it was: after each of
\* the successive calls made with one scale object, the object holds the
\* scale first requested, getScale of the result is that scale, and no call
\* raises an error, a frozen constant being the scale included
C27_SetScaleKeepsScale ==
    /\ fn = "mat2x3.setScale" =>
        /\ ret[fn] # "TypeError"
        /\ mem[fn].scale = args[fn].requested
        /\ Within2(mat2x3_getScale(out[fn], vec2_new0), args[fn].requested)
    /\ fn = "mat4.setScale" =>
        /\ ret[fn] # "TypeError"
        /\ mem[fn].scale = args[fn].requested
        /\ Within3(mat4_getScale(out[fn], vec3_zero), args[fn].requested)
\* ------------------------------------------------------------------------
\* Euler angles and interpolation of vectors
\* ------------------------------------------------------------------------

\* C28: fromEuler without an order gives what fromEuler with the order
\* YawPitchRoll gives, and missing angles count as 0
C28_DefaultOrderYawPitchRoll ==
    fn = "quat.fromEuler" =>
        /\ args[fn].order = {} =>
            Within4(out[fn], quat_fromEuler([args[fn] EXCEPT !.order = {"YawPitchRoll"}]))
        /\ out[fn] = quat_fromEuler([order |-> args[fn].order,
                                     pitch |-> OrDefault(args[fn].pitch, 0),
                                     yaw |-> OrDefault(args[fn].yaw, 0),
                                     roll |-> OrDefault(args[fn].roll, 0)])
\* the alpha of component c: the number, or the component c of the vector
AlphaOf(alpha, c) == IF alpha.kind = "number" THEN alpha.n ELSE alpha.v[c]

\* C29: every component c of lerp(a, b, alpha) is a.c + (b.c - a.c) * alpha,
\* with the component c of alpha when alpha is a vector
C29_LerpByComponent ==
    fn \in {"vec2.lerp", "vec3.lerp", "vec4.lerp"} =>
        \A c \in DOMAIN out[fn] :
            out[fn][c] = args[fn].a[c]
                + Mul(args[fn].b[c] - args[fn].a[c], AlphaOf(args[fn].alpha, c))
\* ------------------------------------------------------------------------
\* Reuse of a transform record
\* ------------------------------------------------------------------------

\* C30: whatever calls of compose and decompose were made on a record
\* before, decompose(m, record) succeeds and the record's translation,
\* rotation and scale then hold those of m
C30_RecordReusable ==
    fn = "mat4.decompose" =>
        /\ ret[fn] # "TypeError"
        /\ Deref3(mem.heap, transform.record).translation
               = {Decomposed4(args[fn].m).translation}
        /\ Deref3(mem.heap, transform.record).rotation = {Decomposed4(args[fn].m).rotation}
        /\ Deref3(mem.heap, transform.record).scale = {Decomposed4(args[fn].m).scale}

====
